---- MODULE Spec2Model ----
(***************************************************************************)
(* box-of-rain: the auto-layout engine (src/src/layout.ts) and the render  *)
(* driver with the connection router's loops (src/unnamed/part_002,        *)
(* src/src/draw-connection.ts), as a state machine over a diagram tree.    *)
(*                                                                         *)
(* Representation of the TypeScript values:                                *)
(*   - an optional number (x?, y?, width?, height?) is <<>> when absent    *)
(*     and <<n>> when present;                                             *)
(*   - an optional string (id?, title?, label?, fromSide?, childDirection?)*)
(*     is "" when absent: every test the code makes on them is a           *)
(*     truthiness test, which "" and undefined both fail;                  *)
(*   - NodeDef.children is split in two fields: lines (the strings) and    *)
(*     kids (the NodeDef objects); getChildBoxes / getTextContent only     *)
(*     look at which of the two kinds is present.                          *)
(***************************************************************************)
EXTENDS Integers, Sequences, FiniteSets, TLC

VARIABLES
    heap,           \* the two NodeDef objects: heap.diagram (the caller's), heap.cloned
    ref,            \* which object the local variable `cloned` of autoLayout refers to
    ret,            \* the object autoLayout returned ("" while it runs)
    original,       \* the caller's tree as it was when autoLayout was called
    given,          \* the tree passed to the first call of autoLayout
    opts,           \* Required<LayoutOptions>
    pc,             \* position in autoLayout / render
    pass,           \* 1: autoLayout(tree), 2: autoLayout(autoLayout(tree))
    topAdj,         \* Map<string, Set<string>> (sets kept in insertion order)
    topInDeg,       \* Map<string, number>
    layer,          \* Map<string, number>
    queue,          \* string[]
    qi,             \* index of the next queue entry, 0-based as in the code
    layers,         \* NodeDef[][], boxes as indexes of clonedChildren, <<>> = hole
    columnHeights,  \* number[]
    firstResult,    \* the tree the first call returned
    ci,             \* render: index of the connection being drawn (1-based)
    run,            \* render: the loops of the router still to run for it
    canvas,         \* the Canvas: its width, height and grid of cells
    lastCall,       \* the last call made on the Canvas, with its arguments
    returned        \* what the last call returned

\* the variables of autoLayout other than pc, and those of render
layoutVars == <<heap, ref, ret, original, given, opts, pass, topAdj, topInDeg, layer,
                queue, qi, layers, columnHeights, firstResult>>

canvasVars == <<canvas, lastCall, returned>>

renderVars == <<ci, run, canvasVars>>

vars == <<layoutVars, pc, renderVars>>

-----------------------------------------------------------------------------
(* Optional values and small helpers *)

None == <<>>

Some(v) == <<v>>

OrZero(o) == IF o = <<>> THEN 0 ELSE o[1]

Max(a, b) == IF a >= b THEN a ELSE b

Min(a, b) == IF a <= b THEN a ELSE b

Abs(a) == IF a >= 0 THEN a ELSE 0 - a

SetMax(S) == IF S = {} THEN 0 ELSE CHOOSE m \in S : \A s \in S : s <= m

SetMin(S) == CHOOSE m \in S : \A s \in S : m <= s

Range(s) == {s[i] : i \in 1..Len(s)}

\* Map.get(k) with a default, Map.set(k, v)
Get(m, k, d) == IF k \in DOMAIN m THEN m[k] ELSE d

Put(m, k, v) == [x \in (DOMAIN m) \cup {k} |-> IF x = k THEN v ELSE m[x]]

EmptyMap == [x \in {} |-> 0]

RECURSIVE Flatten(_)
Flatten(ss) == IF ss = <<>> THEN <<>> ELSE Head(ss) \o Flatten(Tail(ss))

-----------------------------------------------------------------------------
(* schema.ts *)

Node(id, title, lines, kids, shadow, dir, x, y, w, h, conns) ==
    [id |-> id, title |-> title, lines |-> lines, kids |-> kids, shadow |-> shadow,
     childDirection |-> dir, x |-> x, y |-> y, width |-> w, height |-> h,
     connections |-> conns, border |-> "", disabled |-> FALSE]

Conn(from, to, label, fromSide, toSide) ==
    [from |-> from, to |-> to, label |-> label, fromSide |-> fromSide, toSide |-> toSide]

\* string[] | null; every caller uses `getTextContent(box) || []`, so null is <<>>
getTextContent(node) == IF node.kids = <<>> THEN node.lines ELSE <<>>

\* NodeDef[] | null, null is <<>> (the code returns null for an empty array too)
getChildBoxes(node) == node.kids

RECURSIVE collectConnections(_)
collectConnections(node) ==
    node.connections
      \o Flatten([i \in 1..Len(getChildBoxes(node)) |->
                    collectConnections(getChildBoxes(node)[i])])

-----------------------------------------------------------------------------
(* constants.ts *)

DEFAULT_LAYOUT_OPTIONS ==
    [defaultHGap |-> 3, vGap |-> 2, padLeft |-> 2, padTop |-> 1,
     minBoxWidth |-> 12, minBoxHeight |-> 5]

-----------------------------------------------------------------------------
(* layout.ts: sizing *)

autoSizeBox(box, o) ==
    LET lines == getTextContent(box)
        longestLine == SetMax({Len(lines[i]) : i \in 1..Len(lines)})
        titleLen == Len(box.title)
    IN  [box EXCEPT
           !.width  = IF box.width = None
                        THEN Some(Max(Max(longestLine + 4, titleLen + 6), o.minBoxWidth))
                        ELSE box.width,
           !.height = IF box.height = None
                        THEN Some(Max(Len(lines) + 2, o.minBoxHeight))
                        ELSE box.height]

\* `autoSized` is every child with a width, which after autoSizeBox is every child
equalizeWidths(children) ==
    LET autoSized == {i \in 1..Len(children) : children[i].width # None}
        ws == {children[i].width[1] : i \in autoSized}
        maxW == SetMax(ws)
        minW == SetMin(ws)
    IN  IF Cardinality(autoSized) < 2 THEN children
        ELSE IF 10 * minW >= 7 * maxW       \* minW >= maxW * 0.7
             THEN [i \in 1..Len(children) |->
                     IF i \in autoSized THEN [children[i] EXCEPT !.width = Some(maxW)]
                                        ELSE children[i]]
             ELSE children

\* A layer list is NodeDef[][]: entry l+1 is the code's layers[l], its boxes given
\* as indexes into the sibling list `boxes`; a hole of the sparse array is <<>>.
\* idToLayer.get(id) of computeLayerGaps: the last layer holding a box with that
\* id, -1 for undefined.
IdToLayer(lay, boxes, id) ==
    LET hits == {i \in 1..Len(lay) : \E j \in 1..Len(lay[i]) : boxes[lay[i][j]].id = id}
    IN  IF id = "" \/ hits = {} THEN -1 ELSE SetMax(hits) - 1

computeLayerGaps(lay, boxes, connections, defaultGap) ==
    [i \in 1..Len(lay) |->
       LET counted == {k \in 1..Len(connections) :
                         LET c == connections[k]
                             fromLayer == IdToLayer(lay, boxes, c.from)
                             toLayer == IdToLayer(lay, boxes, c.to)
                         IN  /\ c.label # ""
                             /\ fromLayer # -1 /\ toLayer # -1
                             /\ ~(fromLayer >= toLayer)
                             /\ ~(c.fromSide # "" /\ c.toSide # "" /\ c.fromSide = c.toSide)
                             /\ toLayer - fromLayer = 1
                             /\ fromLayer = i - 1}
           maxLabel == SetMax({Len(connections[k].label) : k \in counted})
       IN  Max(defaultGap, maxLabel + 4)]

Indices(n) == [i \in 1..n |-> i]

\* `for (const c of children) { l = ...; layers[l].push(c) }`
GroupLayers(n, L) ==
    LET top == SetMax({L[i] : i \in 1..n})
    IN  [l \in 1..(top + 1) |-> SelectSeq(Indices(n), LAMBDA i : L[i] = l - 1)]

-----------------------------------------------------------------------------
(* layout.ts: nested containers *)

childHGap == 5

childVGap == 1

RECURSIVE VStack(_, _, _, _, _)
VStack(children, i, curY, vGap, o) ==
    IF i > Len(children) THEN children
    ELSE LET c == children[i]
             placed == [c EXCEPT !.x = IF c.x = None THEN Some(o.padLeft) ELSE c.x,
                                 !.y = IF c.y = None THEN Some(curY) ELSE c.y]
         IN  VStack([children EXCEPT ![i] = placed], i + 1,
                    curY + OrZero(c.height) + vGap, vGap, o)

layoutVertical(children, intraConns, o) ==
    LET hasLabeledConn == \E k \in 1..Len(intraConns) : intraConns[k].label # ""
        hasConn == Len(intraConns) > 0
        vGap == IF hasLabeledConn THEN 3 ELSE IF hasConn THEN 2 ELSE 1
    IN  VStack(children, 1, o.padTop, vGap, o)

\* the body of `for (const next of adj.get(cur))`, from entry k on
RECURSIVE hVisit(_, _, _, _)
hVisit(nexts, k, cur, st) ==
    IF k > Len(nexts) THEN st
    ELSE LET next == nexts[k]
             newLayer == Get(st.layer, cur, 0) + 1
             deg == Get(st.inDeg, next, 0) - 1
         IN  hVisit(nexts, k + 1, cur,
                    [layer |-> Put(st.layer, next, Max(Get(st.layer, next, 0), newLayer)),
                     inDeg |-> Put(st.inDeg, next, deg),
                     queue |-> IF deg = 0 THEN Append(st.queue, next) ELSE st.queue])

\* `while (qi < queue.length)`; q is qi + 1
RECURSIVE hLoop(_, _, _)
hLoop(adj, st, q) ==
    IF q > Len(st.queue) THEN st.layer
    ELSE hLoop(adj, hVisit(Get(adj, st.queue[q], <<>>), 1, st.queue[q], st), q + 1)

RECURSIVE hColumn(_, _, _, _, _)
hColumn(children, group, j, curX, curY) ==
    IF j > Len(group) THEN children
    ELSE LET c == children[group[j]]
             placed == [c EXCEPT !.x = IF c.x = None THEN Some(curX) ELSE c.x,
                                 !.y = IF c.y = None THEN Some(curY) ELSE c.y]
         IN  hColumn([children EXCEPT ![group[j]] = placed], group, j + 1, curX,
                     curY + OrZero(c.height) + childVGap)

RECURSIVE hPlace(_, _, _, _, _, _)
hPlace(children, lay, layerGaps, i, curX, o) ==
    IF i > Len(lay) THEN children
    ELSE LET group == lay[i]
             gap == IF layerGaps[i] = 0 THEN childHGap ELSE layerGaps[i]
             maxW == SetMax({OrZero(children[group[j]].width) : j \in 1..Len(group)})
         IN  IF group = <<>>
             THEN hPlace(children, lay, layerGaps, i + 1, curX + gap, o)
             ELSE hPlace(hColumn(children, group, 1, curX, o.padTop), lay, layerGaps,
                         i + 1, curX + maxW + gap, o)

layoutHorizontal(children, intraConns, o) ==
    LET n == Len(children)
        ids == {children[i].id : i \in 1..n} \ {""}
        froms(id) == SelectSeq(intraConns, LAMBDA c : c.from = id)
        adj == [id \in ids |-> [k \in 1..Len(froms(id)) |-> froms(id)[k].to]]
        inDeg == [id \in ids |->
                    Cardinality({k \in 1..Len(intraConns) : intraConns[k].to = id})]
        starts == SelectSeq(Indices(n), LAMBDA i : children[i].id # ""
                                                   /\ inDeg[children[i].id] = 0)
        queue0 == [k \in 1..Len(starts) |-> children[starts[k]].id]
        layer0 == [id \in Range(queue0) |-> 0]
        looped == hLoop(adj, [layer |-> layer0, inDeg |-> inDeg, queue |-> queue0], 1)
        \* `if (c.id && !layer.has(c.id)) layer.set(c.id, 0)` and `layer.get(c.id) ?? 0`
        L == [i \in 1..n |->
                IF children[i].id = "" THEN 0 ELSE Get(looped, children[i].id, 0)]
        lay == GroupLayers(n, L)
        layerGaps == computeLayerGaps(lay, children, intraConns, childHGap)
    IN  hPlace(children, lay, layerGaps, 1, o.padLeft, o)

\* lines 90-111: the width of a parent that has none
parentWidth(parent, children, intraConns) ==
    LET idx == 1..Len(children)
        maxRight == SetMax({OrZero(children[i].x) + OrZero(children[i].width)
                              + (IF children[i].shadow THEN 2 ELSE 0) : i \in idx})
        maxChildW == SetMax({OrZero(children[i].width) : i \in idx})
        labelled == {k \in 1..Len(intraConns) : intraConns[k].label # ""}
        \* Math.ceil(maxChildW / 2) + conn.label.length + 8
        needed == SetMax({(maxChildW + 1) \div 2 + Len(intraConns[k].label) + 8
                            : k \in labelled})
        minWidth == IF parent.childDirection = "vertical"
                      THEN Max(maxRight + 4, needed) ELSE maxRight + 4
    IN  IF parent.title # "" THEN Max(minWidth, Len(parent.title) + 6) ELSE minWidth

\* a parent only as high as its lowest child
parentHeightTight(children) ==
    SetMax({OrZero(children[i].y) + OrZero(children[i].height) : i \in 1..Len(children)})

\* lines 112-119: the height of a parent that has none
parentHeight(children) ==
    LET maxBottom == SetMax({OrZero(children[i].y) + OrZero(children[i].height)
                               + (IF children[i].shadow THEN 1 ELSE 0)
                               : i \in 1..Len(children)})
    IN  maxBottom + 2

RECURSIVE layoutChildren(_, _, _)
layoutChildren(parent, allConnections, o) ==
    LET kids == getChildBoxes(parent)
        sized == [i \in 1..Len(kids) |->
                    autoSizeBox(IF getChildBoxes(kids[i]) # <<>>
                                  THEN layoutChildren(kids[i], allConnections, o)
                                  ELSE kids[i], o)]
        equal == equalizeWidths(sized)
        childIds == {equal[i].id : i \in 1..Len(equal)} \ {""}
        intraConns == SelectSeq(allConnections,
                                LAMBDA c : c.from \in childIds /\ c.to \in childIds)
        children == IF parent.childDirection = "vertical"
                      THEN layoutVertical(equal, intraConns, o)
                      ELSE layoutHorizontal(equal, intraConns, o)
    IN  IF kids = <<>> THEN parent
        ELSE [parent EXCEPT
                !.kids = children,
                !.width = IF parent.width = None
                            THEN Some(parentWidth(parent, children, intraConns))
                            ELSE parent.width,
                !.height = IF parent.height = None THEN Some(parentHeight(children))
                                                   ELSE parent.height]

autoSizeCanvas(diagram) ==
    LET children == getChildBoxes(diagram)
        idx == 1..Len(children)
        maxX == SetMax({OrZero(children[i].x) + OrZero(children[i].width)
                          + (IF children[i].shadow THEN 2 ELSE 0) : i \in idx})
        maxY == SetMax({OrZero(children[i].y) + OrZero(children[i].height)
                          + (IF children[i].shadow THEN 1 ELSE 0) : i \in idx})
    IN  [diagram EXCEPT
           !.width = IF diagram.width = None THEN Some(maxX + 2) ELSE diagram.width,
           !.height = IF diagram.height = None THEN Some(maxY + 1) ELSE diagram.height]

-----------------------------------------------------------------------------
(* layout.ts: autoLayout, the top level *)

\* JSON.parse(JSON.stringify(diagram)): a new tree, built field by field. Absent
\* keys stay absent; numbers, strings, booleans and arrays come back as they were.
RECURSIVE jsonClone(_)
jsonClone(node) ==
    Node(node.id, node.title, node.lines,
         [i \in 1..Len(node.kids) |-> jsonClone(node.kids[i])],
         node.shadow, node.childDirection, node.x, node.y, node.width, node.height,
         [k \in 1..Len(node.connections) |->
            Conn(node.connections[k].from, node.connections[k].to,
                 node.connections[k].label, node.connections[k].fromSide,
                 node.connections[k].toSide)])

\* `cloned` as another name of the caller's tree
cloneRefAliased == "diagram"

\* the object `cloned` refers to after line 238
cloneRef == "cloned"

allExplicit(children) ==
    \A i \in 1..Len(children) :
        /\ children[i].x # None /\ children[i].y # None
        /\ children[i].width # None /\ children[i].height # None

\* no early return
returnsInputNever(diagram) == FALSE

\* the condition of the early return of line 235
returnsInput(diagram) ==
    /\ allExplicit(getChildBoxes(diagram))
    /\ diagram.width # None /\ diagram.height # None

\* Step 1, lines 243-248
sizeTopLevel(tree, o) ==
    LET conns == collectConnections(tree)
        boxes == getChildBoxes(tree)
    IN  [tree EXCEPT !.kids =
           [i \in 1..Len(boxes) |->
              autoSizeBox(IF getChildBoxes(boxes[i]) # <<>>
                            THEN layoutChildren(boxes[i], conns, o)
                            ELSE boxes[i], o)]]

allPlaced(children) ==
    \A i \in 1..Len(children) : children[i].x # None /\ children[i].y # None

topIds(children) == {children[i].id : i \in 1..Len(children)} \ {""}

\* childToParent.get(id): the last top-level box with an id and child boxes that
\* has a direct child of that id; "" for undefined
childToParent(children, id) ==
    LET parents == {i \in 1..Len(children) :
                      /\ children[i].id # ""
                      /\ \E j \in 1..Len(getChildBoxes(children[i])) :
                            getChildBoxes(children[i])[j].id = id}
    IN  IF id = "" \/ parents = {} THEN "" ELSE children[SetMax(parents)].id

\* `topIds.has(id) ? id : childToParent.get(id)`
topOf(children, id) ==
    IF id \in topIds(children) THEN id ELSE childToParent(children, id)

RECURSIVE Dedup(_)
Dedup(s) ==
    IF s = <<>> THEN <<>>
    ELSE LET front == Dedup(SubSeq(s, 1, Len(s) - 1))
         IN  IF s[Len(s)] \in Range(front) THEN front ELSE Append(front, s[Len(s)])

\* the connections that count as top-level edges (line 280), as <<fromTop, toTop>>
topEdges(children, conns) ==
    LET mapped == [k \in 1..Len(conns) |->
                     <<topOf(children, conns[k].from), topOf(children, conns[k].to)>>]
    IN  SelectSeq(mapped, LAMBDA e : e[1] # "" /\ e[2] # "" /\ e[1] # e[2])

\* lines 269-286: each Set of topAdj in insertion order
buildTopAdj(children, conns) ==
    LET edges == Dedup(topEdges(children, conns))
    IN  [id \in topIds(children) |->
           LET out == SelectSeq(edges, LAMBDA e : e[1] = id)
           IN  [k \in 1..Len(out) |-> out[k][2]]]

buildTopInDeg(children, conns) ==
    LET edges == Dedup(topEdges(children, conns))
    IN  [id \in topIds(children) |-> Cardinality({k \in 1..Len(edges) : edges[k][2] = id})]

\* line 290
initialQueue(children, inDeg) ==
    LET starts == SelectSeq(Indices(Len(children)),
                            LAMBDA i : children[i].id # "" /\ inDeg[children[i].id] = 0)
    IN  [k \in 1..Len(starts) |-> children[starts[k]].id]

\* the first box of least in-degree, layered or not
pickBestLayered(children, lay, inDeg) ==
    LET cand == {i \in 1..Len(children) : children[i].id # ""}
        deg(i) == Get(inDeg, children[i].id, 0)
        least == {i \in cand : \A j \in cand : deg(i) <= deg(j)}
    IN  IF cand = {} THEN "" ELSE children[SetMin(least)].id

\* lines 295-302: the first unlayered box of least remaining in-degree, "" for null
pickBest(children, lay, inDeg) ==
    LET cand == {i \in 1..Len(children) :
                   children[i].id # "" /\ children[i].id \notin DOMAIN lay}
        deg(i) == Get(inDeg, children[i].id, 0)
        least == {i \in cand : \A j \in cand : deg(i) <= deg(j)}
    IN  IF cand = {} THEN "" ELSE children[SetMin(least)].id

\* successors left on the layer of their predecessor
RECURSIVE topVisitSameLayer(_, _, _, _)
topVisitSameLayer(nexts, k, cur, st) ==
    IF k > Len(nexts) THEN st
    ELSE LET next == nexts[k]
             newLayer == Get(st.layer, cur, 0)
             deg == Get(st.inDeg, next, 0) - 1
         IN  topVisitSameLayer(nexts, k + 1, cur,
                 [layer |-> Put(st.layer, next, Max(Get(st.layer, next, 0), newLayer)),
                  inDeg |-> Put(st.inDeg, next, deg),
                  queue |-> IF deg = 0 THEN Append(st.queue, next) ELSE st.queue])

\* the body of `for (const next of topAdj.get(cur))`, lines 308-313, from entry k on
RECURSIVE topVisit(_, _, _, _)
topVisit(nexts, k, cur, st) ==
    IF k > Len(nexts) THEN st
    ELSE LET next == nexts[k]
             newLayer == Get(st.layer, cur, 0) + 1
             deg == Get(st.inDeg, next, 0) - 1
         IN  topVisit(nexts, k + 1, cur,
                      [layer |-> Put(st.layer, next, Max(Get(st.layer, next, 0), newLayer)),
                       inDeg |-> Put(st.inDeg, next, deg),
                       queue |-> IF deg = 0 THEN Append(st.queue, next) ELSE st.queue])

\* lines 316-322
groupTopLayers(children, lay) ==
    GroupLayers(Len(children),
                [i \in 1..Len(children) |->
                   IF children[i].id = "" THEN 0 ELSE Get(lay, children[i].id, 0)])

\* lines 324-332
spreadDisconnected(grouped, adj) ==
    LET hasTopEdges == \E id \in DOMAIN adj : adj[id] # <<>>
    IN  IF ~hasTopEdges /\ Len(grouped) = 1 /\ Len(grouped[1]) > 1
        THEN [k \in 1..Len(grouped[1]) |-> <<grouped[1][k]>>]
        ELSE grouped

\* prevOrder.get(id) for prevOrder = new Map(prevLayer.map((b, idx) => [b.id, idx])):
\* the last index (0-based) of a box of that id in the previous layer, -1 when the
\* map has no such key. A box without an id is stored under the key undefined,
\* which is "" here.
prevOrderOf(children, prevLayer, id) ==
    LET at == {k \in 1..Len(prevLayer) : children[prevLayer[k]].id = id}
    IN  IF at = {} THEN -1 ELSE SetMax(at) - 1

\* ascending order of a sequence of numbers: positions.sort((a, b) => a - b)
RECURSIVE SortNums(_)
SortNums(s) ==
    IF s = <<>> THEN <<>>
    ELSE LET m == SetMin(Range(s))
             at == CHOOSE k \in 1..Len(s) : s[k] = m
         IN  <<m>> \o SortNums(SubSeq(s, 1, at - 1) \o SubSeq(s, at + 1, Len(s)))

\* None stands for Infinity
getMedianPosition(id, conns, children, prevLayer) ==
    LET has(k) == k # "" /\ prevOrderOf(children, prevLayer, k) # -1
        fromTop(c) == IF has(c.from) THEN c.from ELSE childToParent(children, c.from)
        toTop(c) == IF has(c.to) THEN c.to ELSE childToParent(children, c.to)
        hits == SelectSeq(conns, LAMBDA c : /\ toTop(c) = id
                                            /\ fromTop(c) # ""
                                            /\ prevOrderOf(children, prevLayer, fromTop(c)) # -1)
        positions == SortNums([k \in 1..Len(hits) |->
                                 prevOrderOf(children, prevLayer, fromTop(hits[k]))])
    IN  IF Len(positions) = 0 THEN None
        ELSE Some(positions[(Len(positions) \div 2) + 1])

\* the comparator of line 339-343 returns a negative number: a sorts before b.
\* Infinity - Infinity is NaN, which sort treats as 0.
sortsBefore(aMedian, bMedian) ==
    aMedian # None /\ (bMedian = None \/ aMedian[1] < bMedian[1])

\* Array.prototype.sort is stable: x goes before the first entry it sorts before
RECURSIVE insertByKey(_, _, _)
insertByKey(sorted, x, key) ==
    IF sorted = <<>> THEN <<x>>
    ELSE IF sortsBefore(key[x], key[Head(sorted)]) THEN <<x>> \o sorted
         ELSE <<Head(sorted)>> \o insertByKey(Tail(sorted), x, key)

\* key maps each box (index) to its sort key
RECURSIVE stableSort(_, _)
stableSort(s, key) ==
    IF s = <<>> THEN <<>>
    ELSE insertByKey(stableSort(SubSeq(s, 1, Len(s) - 1), key), s[Len(s)], key)

\* Step 3, lines 335-344, from layer i (0-based) on
RECURSIVE orderLayers(_, _, _, _)
orderLayers(lay, i, children, conns) ==
    IF i >= Len(lay) THEN lay
    ELSE IF Len(lay[i + 1]) <= 1 THEN orderLayers(lay, i + 1, children, conns)
    ELSE LET prevLayer == lay[i]
             key == [b \in Range(lay[i + 1]) |->
                       getMedianPosition(children[b].id, conns, children, prevLayer)]
         IN  orderLayers([lay EXCEPT ![i + 1] = stableSort(lay[i + 1], key)],
                         i + 1, children, conns)

\* lines 351-355
topConns(children, conns) ==
    LET mapped == [k \in 1..Len(conns) |->
                     Conn(topOf(children, conns[k].from), topOf(children, conns[k].to),
                          conns[k].label, conns[k].fromSide, conns[k].toSide)]
    IN  SelectSeq(mapped, LAMBDA c : c.from # "" /\ c.to # "" /\ c.from # c.to)

\* lines 365-372, one column from its entry j on; returns the boxes and curY
RECURSIVE topColumn(_, _, _, _, _, _)
topColumn(children, group, j, curX, curY, o) ==
    IF j > Len(group) THEN [children |-> children, curY |-> curY]
    ELSE LET b == children[group[j]]
             placed == [b EXCEPT !.x = IF b.x = None THEN Some(curX) ELSE b.x,
                                 !.y = IF b.y = None THEN Some(curY) ELSE b.y]
         IN  topColumn([children EXCEPT ![group[j]] = placed], group, j + 1, curX,
                       curY + OrZero(b.height) + (IF b.shadow THEN 1 ELSE 0) + o.vGap, o)

\* Step 4, lines 359-375, from layer i (1-based) on; returns boxes and columnHeights
RECURSIVE assignCoordinates(_, _, _, _, _, _, _)
assignCoordinates(children, lay, layerGaps, i, curX, heights, o) ==
    IF i > Len(lay) THEN [children |-> children, columnHeights |-> heights]
    ELSE LET group == lay[i]
             gap == IF layerGaps[i] = 0 THEN o.defaultHGap ELSE layerGaps[i]
             col == topColumn(children, group, 1, curX, 1, o)
             maxW == SetMax({OrZero(children[group[j]].width)
                               + (IF children[group[j]].shadow THEN 2 ELSE 0)
                               : j \in 1..Len(group)})
         IN  IF group = <<>>
             THEN assignCoordinates(children, lay, layerGaps, i + 1, curX + gap, heights, o)
             ELSE assignCoordinates(col.children, lay, layerGaps, i + 1,
                                    curX + maxW + gap,
                                    Append(heights, col.curY - o.vGap), o)

\* the offset of lines 382-383 for the layer at layerIdx (0-based); 0 stands for
\* every value that fails `offset > 0`: columnHeights[layerIdx] is undefined when
\* layerIdx is past the end, and the offset is then NaN
centerOffset(heights, layerIdx) ==
    LET maxHeight == SetMax(Range(heights))
    IN  IF layerIdx + 1 > Len(heights) THEN 0
        ELSE (maxHeight - heights[layerIdx + 1]) \div 2

\* lines 377-389
centerColumns(children, lay, heights) ==
    [b \in 1..Len(children) |->
       LET at == CHOOSE i \in 1..Len(lay) : \E j \in 1..Len(lay[i]) : lay[i][j] = b
           offset == centerOffset(heights, at - 1)
       IN  IF offset > 0 THEN [children[b] EXCEPT !.y = Some(OrZero(children[b].y) + offset)]
           ELSE children[b]]

-----------------------------------------------------------------------------
(* The input trees *)

\* the most top-level boxes of an input tree
MaxTop == 5

IdAt == <<"a", "b", "c", "d", "e", "f", "g">>

Leaf(id, title, lines, shadow, x, y, w, h) ==
    Node(id, title, lines, <<>>, shadow, "", x, y, w, h, <<>>)

\* the box shapes, each for the box of a given id
Shape(kind, id) ==
    CASE kind = "plain"    -> Leaf(id, "", <<"A">>, FALSE, None, None, None, None)
      [] kind = "big"      -> Leaf(id, "Long title", <<"one", "two", "three", "four">>,
                                   TRUE, None, None, None, None)
      [] kind = "explicit" -> Leaf(id, "", <<"Hi">>, FALSE, Some(20), Some(9), Some(9), Some(3))
      [] kind = "placed"   -> Leaf(id, "", <<"Hi">>, FALSE, Some(4), Some(2), None, None)
      [] kind = "noid"     -> Leaf("", "", <<"anonymous box">>, FALSE, None, None, None, None)
      \* a container laid out left to right: a child of explicit width, a labelled edge
      [] kind = "row"      ->
           Node(id, "", <<>>,
                <<Leaf(id \o "1", "", <<"C1">>, FALSE, None, None, Some(10), None),
                  Leaf(id \o "2", "T", <<"C2">>, TRUE, None, None, None, None)>>,
                FALSE, "horizontal", None, None, None, None,
                <<Conn(id \o "1", id \o "2", "ok", "", "")>>)
      \* a container laid out top to bottom, with a title and a labelled edge
      [] kind = "stack"    ->
           Node(id, "A stacked group", <<>>,
                <<Leaf(id \o "1", "", <<"C1">>, TRUE, None, None, None, None),
                  Leaf(id \o "2", "", <<"a longer line">>, FALSE, None, None, None, None)>>,
                TRUE, "vertical", None, None, None, None,
                <<Conn(id \o "1", id \o "2", "a long label", "", "")>>)
      \* explicit geometry outside, none inside, and a container two levels down
      [] kind = "frame"    ->
           Node(id, "", <<>>,
                <<Leaf(id \o "1", "", <<"C1">>, FALSE, None, None, None, None),
                  Node(id \o "2", "", <<>>,
                       <<Leaf(id \o "3", "", <<"deep">>, FALSE, None, None, None, None)>>,
                       FALSE, "", None, None, None, None, <<>>)>>,
                FALSE, "", Some(0), Some(0), Some(40), Some(12), <<>>)
      \* no geometry anywhere, and a box two container levels down
      [] kind = "deep"     ->
           Node(id, "", <<>>,
                <<Leaf(id \o "1", "", <<"C1">>, FALSE, None, None, None, None),
                  Node(id \o "2", "", <<>>,
                       <<Leaf(id \o "3", "", <<"deep">>, FALSE, None, None, None, None)>>,
                       FALSE, "", None, None, None, None, <<>>)>>,
                FALSE, "", None, None, None, None, <<>>)
      \* explicit geometry at every depth
      [] kind = "fixed"    ->
           Node(id, "", <<>>,
                <<Leaf(id \o "1", "", <<"C1">>, FALSE, Some(1), Some(1), Some(10), Some(3)),
                  Leaf(id \o "2", "", <<"C2">>, FALSE, Some(14), Some(1), Some(12), Some(3))>>,
                FALSE, "", Some(0), Some(14), Some(30), Some(7), <<>>)

LeafKinds == {"plain", "big"}

RichKinds ==
    {"plain", "big", "explicit", "placed", "noid", "row", "stack", "frame", "deep", "fixed"}

\* the shapes the first, second and third top-level box of a small tree are drawn
\* from (RootConns names the boxes a, b, c and the children of a)
KindsAt ==
    << RichKinds,
       {"plain", "big", "explicit", "placed", "noid", "stack", "deep"},
       {"plain", "big", "explicit"} >>

\* the connections declared at the root
RootConns ==
    { <<>>,
      <<Conn("a", "b", "", "", "")>>,
      <<Conn("a", "b", "label12", "", ""), Conn("b", "c", "", "", "")>>,
      <<Conn("a", "b", "", "", ""), Conn("b", "c", "", "", ""), Conn("c", "a", "", "", "")>>,
      <<Conn("a", "a", "", "", ""), Conn("a", "b", "", "", ""), Conn("a", "b", "x", "", ""),
        Conn("a", "zz", "", "", "")>>,
      <<Conn("b", "c", "", "", ""), Conn("a", "c", "a wide label", "", "")>>,
      <<Conn("a1", "b", "", "", ""), Conn("b", "a3", "", "", "")>>,
      <<Conn("b", "a3", "", "", "")>>,
      <<Conn("a", "b3", "", "", "")>>,
      <<Conn("b", "a1", "", "", "")>>,
      <<Conn("a", "d", "", "", ""), Conn("b", "c", "", "", "")>>,
      <<Conn("a", "c", "", "", ""), Conn("b", "d", "", "", "")>>,
      <<Conn("a", "b", "same", "right", "right"), Conn("c", "b", "", "", "")>>,
      <<Conn("b", "a", "", "", ""), Conn("c", "a2", "", "", ""),
        Conn("a2", "a1", "", "", ""), Conn("a2", "a2", "", "", "")>> }

\* LayoutOptions as the caller may give them
NoOptions == [x \in {} |-> 0]

TightOptions ==
    [defaultHGap |-> 1, vGap |-> 1, padLeft |-> 1, padTop |-> 1,
     minBoxWidth |-> 1, minBoxHeight |-> 1]

\* the root's width and height with the options of the call
CallChoices ==
    { <<None, None, NoOptions>>, <<Some(50), Some(20), NoOptions>>,
      <<None, None, TightOptions>> }

\* line 229: { ...DEFAULT_LAYOUT_OPTIONS, ...options }
mergeOptions(options) ==
    [k \in DOMAIN DEFAULT_LAYOUT_OPTIONS |->
       IF k \in DOMAIN options THEN options[k] ELSE DEFAULT_LAYOUT_OPTIONS[k]]

Diagram(boxes, conns, w, h) ==
    Node("", "", <<>>, boxes, FALSE, "", None, None, w, h, conns)

\* the top-level boxes: a small tree of the shapes for each place, or a larger
\* one, of up to MaxTop boxes, all leaves
InputBoxes ==
    LET rich == UNION {{k \in [1..n -> RichKinds] : \A i \in 1..n : k[i] \in KindsAt[i]}
                         : n \in 1..Len(KindsAt)}
        flat == UNION {[1..n -> LeafKinds] : n \in (Len(KindsAt) + 1)..MaxTop}
    IN  { [i \in 1..Len(kinds) |-> Shape(kinds[i], IdAt[i])] : kinds \in rich \cup flat }

-----------------------------------------------------------------------------
(* autoLayout as a state machine *)

Cloned == heap[ref]

InitLayout(tree, options) ==
    /\ heap = [diagram |-> tree, cloned |-> None]
    /\ ref = "diagram"
    /\ ret = ""
    /\ original = tree
    /\ given = tree
    /\ opts = mergeOptions(options)
    /\ pc = "call"
    /\ pass = 1
    /\ topAdj = EmptyMap
    /\ topInDeg = EmptyMap
    /\ layer = EmptyMap
    /\ queue = <<>>
    /\ qi = 0
    /\ layers = <<>>
    /\ columnHeights = <<>>
    /\ firstResult = None
    /\ ci = 0
    /\ run = <<>>
    /\ canvas = None
    /\ lastCall = None
    /\ returned = None

Init ==
    \E boxes \in InputBoxes, conns \in RootConns, call \in CallChoices :
        InitLayout(Diagram(boxes, conns, call[1], call[2]), call[3])

\* return `object`: autoLayout is over
Return(object, tree) ==
    /\ ret' = object
    /\ pc' = "done"
    /\ firstResult' = IF pass = 1 THEN tree ELSE firstResult

\* lines 233-235
ReturnInput ==
    /\ pc = "call"
    /\ returnsInput(heap.diagram)
    /\ Return("diagram", heap.diagram)
    /\ UNCHANGED <<heap, ref, original, given, opts, pass, topAdj, topInDeg, layer,
                   queue, qi, layers, columnHeights, renderVars>>

\* lines 237-248
CloneAndSize ==
    /\ pc = "call"
    /\ ~returnsInput(heap.diagram)
    /\ ref' = cloneRef
    /\ heap' = [heap EXCEPT ![cloneRef] = sizeTopLevel(jsonClone(heap.diagram), opts)]
    /\ pc' = "sized"
    /\ UNCHANGED <<ret, original, given, opts, pass, topAdj, topInDeg, layer, queue, qi,
                   layers, columnHeights, firstResult, renderVars>>

\* lines 250-254
ReturnSized ==
    /\ pc = "sized"
    /\ allPlaced(getChildBoxes(Cloned))
    /\ heap' = [heap EXCEPT ![ref] = autoSizeCanvas(Cloned)]
    /\ Return(ref, heap'[ref])
    /\ UNCHANGED <<ref, original, given, opts, pass, topAdj, topInDeg, layer, queue, qi,
                   layers, columnHeights, renderVars>>

\* lines 256-292
BuildGraph ==
    /\ pc = "sized"
    /\ ~allPlaced(getChildBoxes(Cloned))
    /\ LET children == getChildBoxes(Cloned)
           conns == collectConnections(Cloned)
           inDeg == buildTopInDeg(children, conns)
           q == initialQueue(children, inDeg)
       IN  /\ topAdj' = buildTopAdj(children, conns)
           /\ topInDeg' = inDeg
           /\ queue' = q
           /\ layer' = [id \in Range(q) |-> 0]
    /\ qi' = 0
    /\ pc' = "layering"
    /\ UNCHANGED <<heap, ref, ret, original, given, opts, pass, layers, columnHeights,
                   firstResult, renderVars>>

\* the condition of the while loop of line 293
layeringGoesOn ==
    qi < Len(queue) \/ Cardinality(DOMAIN layer) < Len(getChildBoxes(Cloned))

\* the worklist is empty and some box has no layer (line 294)
mustSeed ==
    qi >= Len(queue) /\ Cardinality(DOMAIN layer) < Len(getChildBoxes(Cloned))

\* one iteration of the while loop, lines 293-314
LayerStep ==
    /\ pc = "layering"
    /\ layeringGoesOn
    /\ LET best == pickBest(getChildBoxes(Cloned), layer, topInDeg)
           seeded == IF mustSeed
                       THEN [layer |-> Put(layer, best, 0), inDeg |-> topInDeg,
                             queue |-> Append(queue, best)]
                       ELSE [layer |-> layer, inDeg |-> topInDeg, queue |-> queue]
           cur == seeded.queue[qi + 1]
           after == topVisit(Get(topAdj, cur, <<>>), 1, cur, seeded)
       IN  /\ ~(mustSeed /\ best = "")
           /\ layer' = after.layer
           /\ topInDeg' = after.inDeg
           /\ queue' = after.queue
    /\ qi' = qi + 1
    /\ UNCHANGED <<heap, ref, ret, original, given, opts, pc, pass, topAdj, layers,
                   columnHeights, firstResult, renderVars>>

\* the loop is left: its condition fails, or `if (!best) break`
LayerExit ==
    /\ pc = "layering"
    /\ \/ ~layeringGoesOn
       \/ mustSeed /\ pickBest(getChildBoxes(Cloned), layer, topInDeg) = ""
    /\ pc' = "place"
    /\ UNCHANGED <<heap, ref, ret, original, given, opts, pass, topAdj, topInDeg, layer,
                   queue, qi, layers, columnHeights, firstResult, renderVars>>

\* lines 316-394
Place ==
    /\ pc = "place"
    /\ LET children == getChildBoxes(Cloned)
           conns == collectConnections(Cloned)
           grouped == spreadDisconnected(groupTopLayers(children, layer), topAdj)
           ordered == orderLayers(grouped, 1, children, conns)
           layerGaps == computeLayerGaps(ordered, children, topConns(children, conns),
                                         opts.defaultHGap)
           placed == assignCoordinates(children, ordered, layerGaps, 1, 0, <<>>, opts)
           centered == centerColumns(placed.children, ordered, placed.columnHeights)
       IN  /\ layers' = ordered
           /\ columnHeights' = placed.columnHeights
           /\ heap' = [heap EXCEPT ![ref] = autoSizeCanvas([Cloned EXCEPT !.kids = centered])]
    /\ Return(ref, heap'[ref])
    /\ UNCHANGED <<ref, original, given, opts, pass, topAdj, topInDeg, layer, queue, qi, renderVars>>

\* autoLayout(autoLayout(tree)): the returned object is the next call's diagram
Again ==
    /\ pc = "done"
    /\ pass = 1
    /\ pass' = 2
    /\ heap' = [diagram |-> heap[ret], cloned |-> None]
    /\ original' = heap[ret]
    /\ ref' = "diagram"
    /\ ret' = ""
    /\ pc' = "call"
    /\ UNCHANGED <<given, opts, topAdj, topInDeg, layer, queue, qi, layers,
                   columnHeights, firstResult, renderVars>>

Next ==
    \/ ReturnInput
    \/ CloneAndSize
    \/ ReturnSized
    \/ BuildGraph
    \/ LayerStep
    \/ LayerExit
    \/ Place
    \/ Again

Spec == Init /\ [][Next]_vars

-----------------------------------------------------------------------------
(* canvas.ts: the grid of cells. Cell (x, y) of the code is grid[y + 1][x + 1]. *)

\* lines 6-10: new Canvas(width, height)
Canvas(width, height) ==
    [width |-> width, height |-> height,
     grid |-> [r \in 1..height |-> [c \in 1..width |-> " "]]]

\* lines 12-14
inBounds(cv, x, y) == x >= 0 /\ x < cv.width /\ y >= 0 /\ y < cv.height

\* a canvas without cells: inBounds is false of every x and y, so no set writes
\* on it (the loops below look at the canvas they have got to before they go on)
noCells(cv) == cv.width = 0 \/ cv.height = 0

\* a set that wraps around the edges of the grid
setWrapped(cv, x, y, ch) ==
    [cv EXCEPT !.grid[(y % cv.height) + 1][(x % cv.width) + 1] = ch]

\* lines 16-20
set(cv, x, y, ch) ==
    IF inBounds(cv, x, y) THEN [cv EXCEPT !.grid[y + 1][x + 1] = ch] ELSE cv

\* lines 22-27
get(cv, x, y) ==
    IF inBounds(cv, x, y) THEN cv.grid[y + 1][x + 1] ELSE " "

\* the loop of writeText from character i (0-based) on, lines 30-32
RECURSIVE writeFrom(_, _, _, _, _)
writeFrom(cv, x, y, text, i) ==
    IF i >= Len(text) \/ noCells(cv) THEN cv
    ELSE writeFrom(set(cv, x + i, y, SubSeq(text, i + 1, i + 1)), x, y, text, i + 1)

\* a writeText that goes on into the next row at the right edge
writeTextWrapping(cv, x, y, text) ==
    LET cell(i) == (y * cv.width) + x + i
        put(g, i) == set(g, cell(i) % cv.width, cell(i) \div cv.width,
                         SubSeq(text, i + 1, i + 1))
        all[i \in 0..Len(text)] == IF i = 0 THEN cv ELSE put(all[i - 1], i - 1)
    IN  all[Len(text)]

\* lines 29-33
writeText(cv, x, y, text) == writeFrom(cv, x, y, text, 0)

\* row.join('')
RECURSIVE joinCells(_)
joinCells(row) == IF row = <<>> THEN "" ELSE Head(row) \o joinCells(Tail(row))

\* what /\s/ matches among the characters of the cells
Whitespace == {" ", "\t", "\n"}

\* line.replace(/\s+$/, '')
RECURSIVE trimEnd(_)
trimEnd(line) ==
    IF Len(line) > 0 /\ SubSeq(line, Len(line), Len(line)) \in Whitespace
      THEN trimEnd(SubSeq(line, 1, Len(line) - 1))
      ELSE line

\* line.match(/^ */)[0].length
RECURSIVE leading(_)
leading(line) ==
    IF Len(line) > 0 /\ SubSeq(line, 1, 1) = " "
      THEN 1 + leading(SubSeq(line, 2, Len(line)))
      ELSE 0

\* line.slice(n)
slice(line, n) == SubSeq(line, n + 1, Len(line))

\* lines.join('\n')
RECURSIVE joinLines(_)
joinLines(lines) ==
    IF lines = <<>> THEN ""
    ELSE IF Len(lines) = 1 THEN lines[1]
    ELSE lines[1] \o "\n" \o joinLines(Tail(lines))

\* lines 36-41: the trimmed rows, and their least indent (None for Infinity)
trimmedRows(cv) == [r \in 1..cv.height |-> trimEnd(joinCells(cv.grid[r]))]

minIndent(lines) ==
    LET filled == {r \in 1..Len(lines) : Len(lines[r]) # 0}
    IN  IF filled = {} THEN None ELSE Some(SetMin({leading(lines[r]) : r \in filled}))

\* a toString that keeps the indent
toStringIndented(cv) == joinLines(trimmedRows(cv))

\* lines 35-46
toString(cv) ==
    LET lines == trimmedRows(cv)
        least == minIndent(lines)
    IN  IF least # None /\ least[1] > 0
          THEN joinLines([r \in 1..Len(lines) |-> slice(lines[r], least[1])])
          ELSE joinLines(lines)

\* the widest and the highest canvas that is made
MaxW == 3

MaxH == 2

\* what the cells are set to
Chars == {" ", "a"}

Texts == {"", "aa", "a a", " a"}

\* a call on the canvas and its arguments
Call(op, x, y, arg) == [op |-> op, x |-> x, y |-> y, arg |-> arg]

InitCanvas ==
    /\ \E w \in 1..MaxW, h \in 1..MaxH : canvas = Canvas(w, h)
    /\ lastCall = None
    /\ returned = None
    /\ pc = "canvas"
    /\ ci = 0
    /\ run = <<>>
    /\ heap = [diagram |-> None, cloned |-> None]
    /\ ref = "diagram"
    /\ ret = ""
    /\ original = None
    /\ given = None
    /\ opts = DEFAULT_LAYOUT_OPTIONS
    /\ pass = 1
    /\ topAdj = EmptyMap
    /\ topInDeg = EmptyMap
    /\ layer = EmptyMap
    /\ queue = <<>>
    /\ qi = 0
    /\ layers = <<>>
    /\ columnHeights = <<>>
    /\ firstResult = None

\* canvas.set(x, y, ch)
CanvasSet ==
    /\ pc = "canvas"
    /\ \E x \in -1..canvas.width, y \in -1..canvas.height, ch \in Chars :
          /\ canvas' = set(canvas, x, y, ch)
          /\ lastCall' = Call("set", x, y, ch)
    /\ returned' = None
    /\ UNCHANGED <<layoutVars, pc, ci, run>>

\* canvas.get(x, y)
CanvasGet ==
    /\ pc = "canvas"
    /\ \E x \in -1..canvas.width, y \in -1..canvas.height :
          /\ returned' = get(canvas, x, y)
          /\ lastCall' = Call("get", x, y, "")
    /\ UNCHANGED <<layoutVars, pc, ci, run, canvas>>

\* canvas.writeText(x, y, text)
CanvasWriteText ==
    /\ pc = "canvas"
    /\ \E x \in -2..canvas.width, y \in -1..canvas.height, text \in Texts :
          /\ canvas' = writeText(canvas, x, y, text)
          /\ lastCall' = Call("writeText", x, y, text)
    /\ returned' = None
    /\ UNCHANGED <<layoutVars, pc, ci, run>>

\* canvas.toString()
CanvasToString ==
    /\ pc = "canvas"
    /\ returned' = toString(canvas)
    /\ lastCall' = Call("toString", 0, 0, "")
    /\ UNCHANGED <<layoutVars, pc, ci, run, canvas>>

NextCanvas ==
    \/ CanvasSet
    \/ CanvasGet
    \/ CanvasWriteText
    \/ CanvasToString

SpecCanvas == InitCanvas /\ [][NextCanvas]_vars

-----------------------------------------------------------------------------
(* The glyphs. A cell of the canvas holds one character; the box-drawing
   characters of the program are written here in ASCII, one for one, and the
   text of the boxes and labels is letters, digits and spaces:
     DownRight ","   DownLeft "."   UpRight ":"   UpLeft ";"
     Horizontal "-"  Vertical "|"   DownHorizontal "+"  UpHorizontal "*"
     VerticalRight "["  VerticalLeft "]"   SHADOW_CHAR "#"
     arrowheads ">" "<" "!" "?" for the ones that point right, left, down, up.
   The double, bold, rounded and dashed borders are the single ones with the
   first letter of the style's name before them. *)

DownRight == ","

DownLeft == "."

UpRight == ":"

UpLeft == ";"

Horizontal == "-"

Vertical == "|"

DownHorizontal == "+"

UpHorizontal == "*"

VerticalRight == "["

VerticalLeft == "]"

\* constants.ts BORDERS
BORDERS ==
    [single  |-> [tl |-> DownRight, tr |-> DownLeft, bl |-> UpRight, br |-> UpLeft,
                  h |-> Horizontal, v |-> Vertical],
     double  |-> [tl |-> "D,", tr |-> "D.", bl |-> "D:", br |-> "D;", h |-> "D-", v |-> "D|"],
     bold    |-> [tl |-> "B,", tr |-> "B.", bl |-> "B:", br |-> "B;", h |-> "B-", v |-> "B|"],
     rounded |-> [tl |-> "R,", tr |-> "R.", bl |-> "R:", br |-> "R;",
                  h |-> Horizontal, v |-> Vertical],
     dashed  |-> [tl |-> DownRight, tr |-> DownLeft, bl |-> UpRight, br |-> UpLeft,
                  h |-> "d-", v |-> "d|"]]

SHADOW_CHAR == "#"

\* constants.ts ARROW_HEADS, by the side of the box the arrow enters
ARROW_HEADS == [left |-> ">", right |-> "<", top |-> "!", bottom |-> "?"]

\* ' '.repeat(n)
RECURSIVE repeatSpace(_)
repeatSpace(n) == IF n <= 0 THEN "" ELSE " " \o repeatSpace(n - 1)

\* text.slice(0, width), where a negative width counts from the end of the text
sliceTo(text, width) ==
    IF width >= 0 THEN SubSeq(text, 1, Min(width, Len(text)))
    ELSE SubSeq(text, 1, Max(Len(text) + width, 0))

\* geometry.ts centerText
centerText(text, width) ==
    IF Len(text) >= width THEN sliceTo(text, width)
    ELSE LET leftPad == (width - Len(text)) \div 2
         IN  repeatSpace(leftPad) \o text \o repeatSpace(width - Len(text) - leftPad)

\* canvas.set for each <<x, y, char>> of a sequence, from the i-th on
RECURSIVE setEach(_, _, _)
setEach(cv, writes, i) ==
    IF i > Len(writes) \/ noCells(cv) THEN cv
    ELSE setEach(set(cv, writes[i][1], writes[i][2], writes[i][3]), writes, i + 1)

\* n, n + 1, ..., m as a sequence
Span(n, m) == [k \in 1..(m - n + 1) |-> n + k - 1]

\* draw-box.ts lines 12-20
drawShadow(cv, x, y, width, height) ==
    LET rows == Span(y + 1, y + height)
        cols == Span(x + 1, x + width + 1)
        side == [k \in 1..(2 * Len(rows)) |->
                   IF k % 2 = 1 THEN <<x + width, rows[(k + 1) \div 2], SHADOW_CHAR>>
                   ELSE <<x + width + 1, rows[k \div 2], SHADOW_CHAR>>]
        below == [k \in 1..Len(cols) |-> <<cols[k], y + height, SHADOW_CHAR>>]
    IN  setEach(cv, side \o below, 1)

\* draw-box.ts lines 23-30, the top border and the bottom border
drawBorders(cv, x, y, width, height, b) ==
    LET across(row) == [k \in 1..(width - 2) |-> <<x + k, row, b.h>>]
        edge(row, l, r) == <<<<x, row, l>>>> \o across(row) \o <<<<x + width - 1, row, r>>>>
    IN  setEach(cv, edge(y, b.tl, b.tr) \o edge(y + height - 1, b.bl, b.br), 1)

\* draw-box.ts lines 33-42: the side borders, and the shadow of another box is
\* cleared from the interior
drawSides(cv, x, y, width, height, b) ==
    LET rows == Span(y + 1, y + height - 2)
        sides == [k \in 1..(2 * Len(rows)) |->
                    IF k % 2 = 1 THEN <<x, rows[(k + 1) \div 2], b.v>>
                    ELSE <<x + width - 1, rows[k \div 2], b.v>>]
        walled == setEach(cv, sides, 1)
        interior(c, r) == /\ r > y /\ r < y + height - 1
                          /\ c > x /\ c < x + width - 1
    IN  [walled EXCEPT !.grid =
           [r \in 1..cv.height |->
              [c \in 1..cv.width |->
                 IF interior(c - 1, r - 1) /\ walled.grid[r][c] = SHADOW_CHAR
                   THEN " " ELSE walled.grid[r][c]]]]

\* draw-box.ts lines 45-56
drawTitle(cv, x, y, width, title, b) ==
    LET titleStr == " " \o title \o " "
        titleX == x + 2
        afterTitle == titleX + 1 + Len(titleStr)
        rest == [k \in 1..(x + width - 1 - afterTitle) |-> <<afterTitle + k - 1, y, b.h>>]
    IN  IF title = "" THEN cv
        ELSE setEach(writeText(set(cv, titleX, y, b.h), titleX + 1, y, titleStr), rest, 1)

\* draw-box.ts lines 59-67, from the i-th line of the text on (i from 0)
RECURSIVE drawText(_, _, _, _, _, _, _)
drawText(cv, x, y, width, height, textLines, i) ==
    IF i >= Len(textLines) \/ noCells(cv) THEN cv
    ELSE LET innerWidth == width - 4
             startRow == y + ((height - Len(textLines)) \div 2)
         IN  drawText(writeText(cv, x + 2, startRow + i, centerText(textLines[i + 1], innerWidth)),
                      x, y, width, height, textLines, i + 1)

\* the characters of a box's frame that the strike-through leaves alone
structureChars ==
    { BORDERS[s][g] : s \in {"single", "double", "bold", "rounded"},
                      g \in {"tl", "tr", "bl", "br", "h", "v"} } \cup {SHADOW_CHAR}

\* '̶', the combining stroke, which follows the character it strikes
Strike == "~"

\* draw-box.ts lines 85-100
drawDisabled(cv, x, y, width, height) ==
    LET onTop(c, r) == r = y /\ c > x /\ c < x + width - 1
        interior(c, r) == /\ r > y /\ r < y + height - 1
                          /\ c > x /\ c < x + width - 1
    IN  [cv EXCEPT !.grid =
           [r \in 1..cv.height |->
              [c \in 1..cv.width |->
                 LET ch == cv.grid[r][c]
                 IN  IF onTop(c - 1, r - 1) /\ ch # " " /\ ch \notin structureChars
                       THEN ch \o Strike
                     ELSE IF interior(c - 1, r - 1) /\ ch = " " THEN SHADOW_CHAR
                     ELSE ch]]]

\* draw-box.ts drawBox, of a box that has its width and height and stands at
\* (x, y) of the canvas; drawKids draws its child boxes from the i-th on
RECURSIVE drawBox(_, _, _, _)
RECURSIVE drawKids(_, _, _, _, _)
drawBox(cv, box, x, y) ==
    LET w == box.width[1]
        h == box.height[1]
        style == IF box.border \in DOMAIN BORDERS THEN BORDERS[box.border] ELSE BORDERS.single
        shaded == IF box.shadow THEN drawShadow(cv, x, y, w, h) ELSE cv
        framed == drawSides(drawBorders(shaded, x, y, w, h, style), x, y, w, h, style)
        titled == drawTitle(framed, x, y, w, box.title, style)
        filled == drawText(titled, x, y, w, h, getTextContent(box), 0)
        nested == drawKids(filled, getChildBoxes(box), 1, x, y)
    IN  IF box.disabled THEN drawDisabled(nested, x, y, w, h) ELSE nested

drawKids(cv, childBoxes, i, x, y) ==
    IF i > Len(childBoxes) \/ noCells(cv) THEN cv
    ELSE drawKids(drawBox(cv, childBoxes[i], x + 1 + OrZero(childBoxes[i].x),
                          y + 1 + OrZero(childBoxes[i].y)),
                  childBoxes, i + 1, x, y)

\* render.ts lines 18-20, from the i-th top-level box on
RECURSIVE drawBoxes(_, _, _)
drawBoxes(cv, boxes, i) ==
    IF i > Len(boxes) \/ noCells(cv) THEN cv
    ELSE drawBoxes(drawBox(cv, boxes[i], boxes[i].x[1], boxes[i].y[1]), boxes, i + 1)

-----------------------------------------------------------------------------
(* render: the boxes are drawn, then each connection is routed *)

\* render.ts line 11: the tree autoLayout returned
laidOut == heap[ret]

\* a resolveBox that adds nothing for the border of a container
RECURSIVE resolveFlat(_, _, _, _, _)
resolveFlat(id, boxes, i, parentAbsX, parentAbsY) ==
    IF i > Len(boxes) THEN None
    ELSE LET box == boxes[i]
             found == IF box.kids # <<>>
                        THEN resolveFlat(id, box.kids, 1, parentAbsX + OrZero(box.x),
                                         parentAbsY + OrZero(box.y))
                        ELSE None
         IN  IF box.id # "" /\ box.id = id
               THEN Some([box |-> box, absX |-> parentAbsX + OrZero(box.x),
                          absY |-> parentAbsY + OrZero(box.y)])
             ELSE IF found # None THEN found
             ELSE resolveFlat(id, boxes, i + 1, parentAbsX, parentAbsY)

\* geometry.ts resolveBox, the loop over `boxes` from its i-th box on
RECURSIVE resolveFrom(_, _, _, _, _)
resolveFrom(id, boxes, i, parentAbsX, parentAbsY) ==
    IF i > Len(boxes) THEN None
    ELSE LET box == boxes[i]
             found == IF box.kids # <<>>
                        THEN resolveFrom(id, box.kids, 1, parentAbsX + OrZero(box.x) + 1,
                                         parentAbsY + OrZero(box.y) + 1)
                        ELSE None
         \* a box without an id is no connection's endpoint
         IN  IF box.id # "" /\ box.id = id
               THEN Some([box |-> box, absX |-> parentAbsX + OrZero(box.x),
                          absY |-> parentAbsY + OrZero(box.y)])
             ELSE IF found # None THEN found
             ELSE resolveFrom(id, boxes, i + 1, parentAbsX, parentAbsY)

resolveBox(id, boxes) == resolveFrom(id, boxes, 1, 0, 0)

\* geometry.ts getAnchor, of a box that has its width and height
getAnchor(resolved, side) ==
    LET box == resolved.box
        w == box.width[1]
        h == box.height[1]
    IN  CASE side = "right"  -> [x |-> resolved.absX + w, y |-> resolved.absY + (h \div 2)]
          [] side = "top"    -> [x |-> resolved.absX + (w \div 2), y |-> resolved.absY - 1]
          [] side = "bottom" -> [x |-> resolved.absX + (w \div 2), y |-> resolved.absY + h]
          [] OTHER           -> [x |-> resolved.absX - 1, y |-> resolved.absY + (h \div 2)]

\* drawConnection lines 71-85; dx and dy are kept doubled, so they stay integers
pickSides(conn, from, to) ==
    LET dx2 == (2 * to.absX + to.box.width[1]) - (2 * from.absX + from.box.width[1])
        dy2 == (2 * to.absY + to.box.height[1]) - (2 * from.absY + from.box.height[1])
    IN  IF conn.fromSide = "" /\ conn.toSide = ""
          THEN IF Abs(dy2) > Abs(dx2)
                 THEN IF dy2 > 0 THEN <<"bottom", "top">> ELSE <<"top", "bottom">>
                 ELSE IF dx2 > 0 THEN <<"right", "left">> ELSE <<"left", "right">>
          ELSE << IF conn.fromSide = "" THEN "right" ELSE conn.fromSide,
                  IF conn.toSide = "" THEN "left" ELSE conn.toSide >>

\* the branch of drawConnection taken, lines 92-118
shapeOf(src, dst, fromSide, toSide) ==
    IF fromSide \in {"bottom", "top"} /\ toSide \in {"top", "bottom"} THEN "vertical"
    ELSE IF fromSide = toSide /\ fromSide \in {"right", "left"} /\ src.y # dst.y THEN "U"
    ELSE IF src.y = dst.y THEN "straight"
    ELSE "L"

\* a loop `for (c = at; c !== end; c += step)` of the router
Loop(at, end, step) == [at |-> at, end |-> end, step |-> step]

\* drawUShape lines 133-139
extendXOf(src, dst, fromSide, boxes) ==
    LET isRight == fromSide = "right"
        rights == {OrZero(boxes[i].x) + OrZero(boxes[i].width)
                     + (IF boxes[i].shadow THEN 2 ELSE 0) : i \in 1..Len(boxes)}
        lefts == {OrZero(boxes[i].x) : i \in 1..Len(boxes)}
        start == Max(src.x, dst.x)
    IN  IF isRight THEN SetMax(rights \cup {start}) + 1
        ELSE SetMin(lefts \cup {start}) - 1

\* the three loops of drawUShape, lines 142, 153 and 165
loopsOfUShape(src, dst, fromSide, boxes) ==
    LET dir == IF fromSide = "right" THEN 1 ELSE -1
        extendX == extendXOf(src, dst, fromSide, boxes)
        yDir == IF dst.y > src.y THEN 1 ELSE -1
    IN  << Loop(src.x + dir, extendX, dir),
           Loop(src.y + yDir, dst.y, yDir),
           Loop(extendX - dir, dst.x, -dir) >>

\* draw-connection.ts lines 204-250
computeLShapeMidX(src, dst, fromId, boxes, allConnections) ==
    LET hDir == IF dst.x > src.x THEN 1 ELSE -1
        counted(sib) ==
            /\ sib.from = fromId
            /\ resolveBox(sib.to, boxes) # None
            /\ getAnchor(resolveBox(sib.to, boxes)[1], "left").y # src.y
            /\ sib.label # ""
        maxMinSeg == SetMax({Len(allConnections[i].label) + 2 + 2 :
                               i \in {j \in 1..Len(allConnections) : counted(allConnections[j])}})
        half == (src.x + dst.x) \div 2
        moved == dst.x - hDir * maxMinSeg
    IN  IF maxMinSeg > 0 /\ Abs(dst.x - half) < maxMinSeg
          THEN IF hDir > 0 THEN Max(moved, src.x + 1) ELSE Min(moved, src.x - 1)
          ELSE half

\* the three loops of drawLShape, lines 264, 281 and 289
loopsOfLShape(src, dst, midX) ==
    LET hDir == IF dst.x > src.x THEN 1 ELSE -1
        yDir == IF dst.y > src.y THEN 1 ELSE -1
    IN  << Loop(src.x + hDir, midX, hDir),
           Loop(src.y + yDir, dst.y, yDir),
           Loop(midX + hDir, dst.x, hDir) >>

\* what drawConnection does with a connection: nothing, a bounded drawing, or
\* the loops of a U or an L; with the anchors, the directions and the column of
\* the turn (extendX of a U, midX of an L) that the drawing uses
routeOf(conn, boxes, allConnections) ==
    LET from == resolveBox(conn.from, boxes)
        to == resolveBox(conn.to, boxes)
        sides == pickSides(conn, from[1], to[1])
        src == getAnchor(from[1], sides[1])
        dst == getAnchor(to[1], sides[2])
        shape == shapeOf(src, dst, sides[1], sides[2])
        midX == computeLShapeMidX(src, dst, conn.from, boxes, allConnections)
    IN  IF from = None \/ to = None THEN [shape |-> "none", loops |-> <<>>]
        ELSE [shape |-> shape,
              loops |-> CASE shape = "U" -> loopsOfUShape(src, dst, sides[1], boxes)
                          [] shape = "L" -> loopsOfLShape(src, dst, midX)
                          [] OTHER -> <<>>,
              src |-> src, dst |-> dst, toSide |-> sides[2],
              arrowHead |-> ARROW_HEADS[sides[2]], label |-> conn.label,
              hDir |-> CASE shape = "U" -> (IF sides[1] = "right" THEN 1 ELSE -1)
                         [] OTHER -> (IF dst.x > src.x THEN 1 ELSE -1),
              yDir |-> IF dst.y > src.y THEN 1 ELSE -1,
              turnX |-> CASE shape = "U" -> extendXOf(src, dst, sides[1], boxes)
                          [] shape = "L" -> midX
                          [] OTHER -> 0]

\* draw-connection.ts lines 8-13
pickCorner(hDir, yDir) ==
    IF hDir > 0 /\ yDir > 0 THEN DownLeft
    ELSE IF hDir > 0 /\ yDir < 0 THEN UpLeft
    ELSE IF hDir < 0 /\ yDir > 0 THEN DownRight
    ELSE UpRight

\* draw-connection.ts lines 15-20
pickOppositeCorner(hDir, yDir) ==
    IF hDir > 0 /\ yDir > 0 THEN UpRight
    ELSE IF hDir > 0 /\ yDir < 0 THEN DownRight
    ELSE IF hDir < 0 /\ yDir > 0 THEN UpLeft
    ELSE DownLeft

\* the four corners of a connection
corners == {DownLeft, UpLeft, DownRight, UpRight}

\* draw-connection.ts lines 23-33
mergeJunction(existing, incoming, hDir) ==
    IF existing \notin corners THEN incoming
    ELSE IF existing = incoming THEN incoming
    ELSE IF incoming \in corners THEN (IF hDir > 0 THEN VerticalLeft ELSE VerticalRight)
    ELSE incoming

\* draw-connection.ts lines 37-47
mergeHorizontal(existing, incoming) ==
    CASE existing \in {DownLeft, DownRight, DownHorizontal} -> DownHorizontal
      [] existing \in {UpLeft, UpRight, UpHorizontal} -> UpHorizontal
      [] OTHER -> incoming

\* where placeLabel writes the padded label, lines 50-59
labelX(label, segStart, segEnd) ==
    LET padded == " " \o label \o " "
        lo == Min(segStart, segEnd)
        hi == Max(segStart, segEnd)
        midX == ((lo + hi) \div 2) - (Len(padded) \div 2)
    IN  IF hi - lo >= Len(padded) + 2
          THEN Min(Max(midX, lo + 1), hi - Len(padded) - 1)
          ELSE midX

\* draw-connection.ts lines 49-61
placeLabel(cv, label, segStart, segEnd, y) ==
    writeText(cv, labelX(label, segStart, segEnd), y, " " \o label \o " ")

\* Math.round((a + b) / 2)
avgOf(a, b) == (a + b + 1) \div 2

\* drawConnection lines 95-106
drawVertical(cv, route) ==
    LET avgX == avgOf(route.src.x, route.dst.x)
        minY == Min(route.src.y, route.dst.y)
        maxY == Max(route.src.y, route.dst.y)
        line == [k \in 1..(maxY - minY + 1) |-> <<avgX, minY + k - 1, Vertical>>]
        drawn == set(setEach(cv, line, 1), avgX, route.dst.y, route.arrowHead)
    IN  IF route.label # "" THEN writeText(drawn, avgX + 2, (minY + maxY) \div 2, route.label)
        ELSE drawn

\* drawStraight lines 190-193, from column col on
RECURSIVE straightFrom(_, _, _, _)
straightFrom(cv, col, maxX, y) ==
    IF col >= maxX \/ noCells(cv) THEN cv
    ELSE straightFrom(set(cv, col, y, mergeHorizontal(get(cv, col, y), Horizontal)),
                      col + 1, maxX, y)

\* draw-connection.ts lines 181-199
drawStraight(cv, route) ==
    LET minX == Min(route.src.x, route.dst.x)
        maxX == Max(route.src.x, route.dst.x)
        drawn == set(straightFrom(cv, minX + 1, maxX, route.src.y),
                     route.dst.x, route.dst.y, route.arrowHead)
    IN  IF route.label # "" THEN placeLabel(drawn, route.label, minX + 1, maxX, route.src.y)
        ELSE drawn

\* the body of the n-th loop of drawUShape (lines 143, 154, 166) or of
\* drawLShape (lines 265-266, 282, 290), with its counter at `at`
loopBody(cv, route, n, at) ==
    CASE n = 1 -> IF route.shape = "L"
                    THEN set(cv, at, route.src.y,
                             mergeHorizontal(get(cv, at, route.src.y), Horizontal))
                    ELSE set(cv, at, route.src.y, Horizontal)
      [] n = 2 -> set(cv, route.turnX, at, Vertical)
      [] OTHER -> set(cv, at, route.dst.y, Horizontal)

\* drawLShape lines 271-278
firstCornerOfL(cv, route) ==
    LET existing == get(cv, route.turnX, route.src.y)
        corner == pickCorner(route.hDir, route.yDir)
    IN  IF existing = Horizontal
          THEN set(cv, route.turnX, route.src.y,
                   IF route.yDir > 0 THEN DownHorizontal ELSE UpHorizontal)
          ELSE set(cv, route.turnX, route.src.y, mergeJunction(existing, corner, route.hDir))

\* drawUShape lines 159-161
secondCornerOfU(route) ==
    IF route.hDir > 0 THEN (IF route.yDir > 0 THEN UpLeft ELSE DownLeft)
    ELSE (IF route.yDir > 0 THEN UpRight ELSE DownRight)

\* what follows the n-th loop before the next one: the first corner (lines 149-150
\* or 271-278), the second corner (lines 162 or 286)
afterLoop(cv, route, n) ==
    CASE n = 1 -> IF route.shape = "L" THEN firstCornerOfL(cv, route)
                  ELSE set(cv, route.turnX, route.src.y, pickCorner(route.hDir, route.yDir))
      [] n = 2 -> set(cv, route.turnX, route.dst.y,
                      IF route.shape = "L" THEN pickOppositeCorner(route.hDir, route.yDir)
                      ELSE secondCornerOfU(route))
      [] OTHER -> cv

\* the arrowhead and the label: drawUShape lines 168-178, drawLShape lines 292-304
afterLoops(cv, route) ==
    LET src == route.src
        dst == route.dst
        pointed == set(cv, dst.x, dst.y, route.arrowHead)
        srcLen == Abs(route.turnX - src.x)
        dstLen == Abs(route.turnX - dst.x)
        padded == " " \o route.label \o " "
    IN  IF route.label = "" THEN pointed
        ELSE IF route.shape = "U"
          THEN IF srcLen >= dstLen THEN placeLabel(pointed, route.label, src.x, route.turnX, src.y)
               ELSE placeLabel(pointed, route.label, dst.x, route.turnX, dst.y)
        ELSE IF dstLen >= Len(padded)
          THEN placeLabel(pointed, route.label, route.turnX, dst.x, dst.y)
        ELSE IF srcLen >= Len(padded)
          THEN placeLabel(pointed, route.label, src.x, route.turnX, src.y)
        ELSE pointed

\* how far past its end the counter of a loop is followed
RunCap == 3

\* the counter moves towards its end, or is on it
Converges(loop) == (loop.end - loop.at) * loop.step >= 0

theConnections == collectConnections(laidOut)

theRoute == routeOf(theConnections[ci], getChildBoxes(laidOut), theConnections)

\* render.ts lines 12-20: the canvas is made and the boxes are drawn
DrawBoxes ==
    /\ pc = "done"
    /\ pass = 1
    /\ pc' = "connect"
    /\ ci' = 1
    /\ run' = <<>>
    /\ canvas' = drawBoxes(Canvas(IF laidOut.width = None THEN 80 ELSE laidOut.width[1],
                                  IF laidOut.height = None THEN 20 ELSE laidOut.height[1]),
                           getChildBoxes(laidOut), 1)
    /\ UNCHANGED <<layoutVars, lastCall, returned>>

\* a drawConnection that marks the canvas before it gives up
SkipConnectionMarked ==
    /\ pc = "connect"
    /\ ci <= Len(theConnections)
    /\ theRoute.shape = "none"
    /\ canvas' = set(canvas, 0, 0, ARROW_HEADS.left)
    /\ ci' = ci + 1
    /\ UNCHANGED <<layoutVars, pc, run, lastCall, returned>>

\* drawConnection line 68: an endpoint is not a box of the tree
SkipConnection ==
    /\ pc = "connect"
    /\ ci <= Len(theConnections)
    /\ theRoute.shape = "none"
    /\ ci' = ci + 1
    /\ UNCHANGED <<layoutVars, pc, run, canvasVars>>

\* drawConnection lines 95-106
DrawVertical ==
    /\ pc = "connect"
    /\ ci <= Len(theConnections)
    /\ theRoute.shape = "vertical"
    /\ canvas' = drawVertical(canvas, theRoute)
    /\ ci' = ci + 1
    /\ UNCHANGED <<layoutVars, pc, run, lastCall, returned>>

\* drawStraight
DrawStraight ==
    /\ pc = "connect"
    /\ ci <= Len(theConnections)
    /\ theRoute.shape = "straight"
    /\ canvas' = drawStraight(canvas, theRoute)
    /\ ci' = ci + 1
    /\ UNCHANGED <<layoutVars, pc, run, lastCall, returned>>

\* drawUShape is entered
DrawUShape ==
    /\ pc = "connect"
    /\ ci <= Len(theConnections)
    /\ theRoute.shape = "U"
    /\ run' = theRoute.loops
    /\ pc' = "run"
    /\ UNCHANGED <<layoutVars, ci, canvasVars>>

\* drawLShape is entered
DrawLShape ==
    /\ pc = "connect"
    /\ ci <= Len(theConnections)
    /\ theRoute.shape = "L"
    /\ run' = theRoute.loops
    /\ pc' = "run"
    /\ UNCHANGED <<layoutVars, ci, canvasVars>>

\* which of the three loops of the shape runs
nthLoop == 4 - Len(run)

\* one iteration of the loop that runs
LoopStep ==
    /\ pc = "run"
    /\ run # <<>>
    /\ Head(run).at # Head(run).end
    /\ (Head(run).at - Head(run).end) * Head(run).step <= RunCap
    /\ canvas' = loopBody(canvas, theRoute, nthLoop, Head(run).at)
    /\ run' = <<[Head(run) EXCEPT !.at = @ + Head(run).step]>> \o Tail(run)
    /\ UNCHANGED <<layoutVars, pc, ci, lastCall, returned>>

\* the loop that runs is left, and the corner after it is drawn
LoopExit ==
    /\ pc = "run"
    /\ run # <<>>
    /\ Head(run).at = Head(run).end
    /\ canvas' = afterLoop(canvas, theRoute, nthLoop)
    /\ run' = Tail(run)
    /\ UNCHANGED <<layoutVars, pc, ci, lastCall, returned>>

\* the arrowhead and the label are drawn, and drawUShape or drawLShape returns
ShapeDrawn ==
    /\ pc = "run"
    /\ run = <<>>
    /\ canvas' = afterLoops(canvas, theRoute)
    /\ ci' = ci + 1
    /\ pc' = "connect"
    /\ UNCHANGED <<layoutVars, run, lastCall, returned>>

\* render.ts line 26
RenderReturn ==
    /\ pc = "connect"
    /\ ci > Len(theConnections)
    /\ pc' = "rendered"
    /\ returned' = toString(canvas)
    /\ UNCHANGED <<layoutVars, ci, run, canvas, lastCall>>

\* drawConnection as one step, for a connection whose loops end: the n-th loop
\* from its counter at `at` on
RECURSIVE runLoop(_, _, _, _)
runLoop(cv, route, n, at) ==
    IF at = route.loops[n].end \/ noCells(cv) THEN cv
    ELSE runLoop(loopBody(cv, route, n, at), route, n, at + route.loops[n].step)

\* draw-connection.ts drawConnection
drawConnection(cv, conn, boxes, allConnections) ==
    LET route == routeOf(conn, boxes, allConnections)
        looped(g, n) == afterLoop(runLoop(g, route, n, route.loops[n].at), route, n)
    IN  CASE route.shape = "none" -> cv
          [] route.shape = "vertical" -> drawVertical(cv, route)
          [] route.shape = "straight" -> drawStraight(cv, route)
          [] OTHER -> afterLoops(looped(looped(looped(cv, 1), 2), 3), route)

\* render.ts lines 22-24, for connections whose loops end, from the i-th on
RECURSIVE drawConnections(_, _, _, _)
drawConnections(cv, connections, i, boxes) ==
    IF i > Len(connections) \/ noCells(cv) THEN cv
    ELSE drawConnections(drawConnection(cv, connections[i], boxes, connections),
                         connections, i + 1, boxes)

\* boxes the caller has placed, 5 by 3
PlacedAt(id, x, y) == Leaf(id, "", <<id>>, FALSE, Some(x), Some(y), Some(5), Some(3))

\* a box in a box in a box, each with its place
Nest(id) ==
    Node(id, "", <<>>,
         <<Node(id \o "1", "", <<>>,
                <<Leaf(id \o "4", "", <<"N">>, FALSE, Some(1), Some(0), Some(5), Some(3))>>,
                FALSE, "", Some(2), Some(1), Some(9), Some(5), <<>>)>>,
         FALSE, "", Some(0), Some(0), Some(13), Some(8), <<>>)

RenderBoxes ==
    { <<a, b>> \o c :
        a \in {Shape("plain", "a"), Shape("row", "a"), PlacedAt("a", 0, 0), Nest("a")},
        b \in {Shape("big", "b"), PlacedAt("b", 15, 0), PlacedAt("b", 15, 6),
               PlacedAt("b", 6, 4), PlacedAt("b", 0, 6)},
        c \in {<<>>, <<PlacedAt("c", 24, 10)>>} }
      \cup { <<PlacedAt("a", 0, 0), PlacedAt("b", 15, 0), PlacedAt("c", 24, 10),
               PlacedAt("d", 24, 16)>> }

RenderSides ==
    { <<"", "">>, <<"right", "left">>, <<"right", "right">>, <<"left", "left">>,
      <<"bottom", "top">> }

\* the longest label of a connection drawn alone
MaxLabel == 8

\* a label of n letters
LabelOf(n) == SubSeq("labelledconnections", 1, n)

RenderConns ==
    UNION { { <<Conn("a", "b", l, s[1], s[2])>>,
              <<Conn("a", "b", l, s[1], s[2]), Conn("a", "c", "sibling", "", "")>>,
              <<Conn("a", "zz", "", "", ""), Conn("b", "a", l, s[1], s[2])>> }
            : s \in RenderSides, l \in {"", "go"} }
      \cup { <<Conn("a1", "b", "", "", "")>>, <<Conn("a4", "b", "", "", "")>>,
             <<Conn("a", "b", "", "", ""), Conn("zz", "a", "lost", "", ""),
               Conn("b", "c", "", "", "")>>,
             <<Conn("a", "b", "", "", ""), Conn("a", "c", "", "", "")>>,
             <<Conn("a", "c", "", "", ""), Conn("a", "b", "", "", "")>>,
             <<Conn("a", "c", "sibling", "", ""), Conn("a", "b", "", "", "")>>,
             <<Conn("a", "c", "sibling", "", ""), Conn("a", "b", "go", "", "")>>,
             <<Conn("a", "b", "", "", ""), Conn("a", "c", "sibling", "", ""),
               Conn("a", "d", "", "", "")>> }
      \cup { <<Conn("a", "b", LabelOf(n), "", "")>> : n \in 1..MaxLabel }

RenderCalls ==
    { <<None, None, NoOptions>>, <<Some(50), Some(20), NoOptions>>,
      <<None, None, [defaultHGap |-> 2]>> }

InitRender ==
    \E boxes \in RenderBoxes, conns \in RenderConns, call \in RenderCalls :
        InitLayout(Diagram(boxes, conns, call[1], call[2]), call[3])

NextRender ==
    \/ ReturnInput
    \/ CloneAndSize
    \/ ReturnSized
    \/ BuildGraph
    \/ LayerStep
    \/ LayerExit
    \/ Place
    \/ DrawBoxes
    \/ SkipConnection
    \/ DrawVertical
    \/ DrawStraight
    \/ DrawUShape
    \/ DrawLShape
    \/ LoopStep
    \/ LoopExit
    \/ ShapeDrawn
    \/ RenderReturn

SpecRender == InitRender /\ [][NextRender]_vars

-----------------------------------------------------------------------------
(* Boxes by their place in the tree: a path is the sequence of child indexes *)

RECURSIVE Paths(_)
Paths(node) ==
    UNION {{<<i>>} \cup {<<i>> \o p : p \in Paths(node.kids[i])} : i \in 1..Len(node.kids)}

RECURSIVE At(_, _)
At(node, p) == IF p = <<>> THEN node ELSE At(node.kids[Head(p)], Tail(p))

\* the first call of autoLayout has returned this tree
Returned == heap[ret]

Laid == pc = "done" /\ pass = 1

HasGeometry(box) ==
    box.x # None /\ box.y # None /\ box.width # None /\ box.height # None

-----------------------------------------------------------------------------
(* C1: after autoLayout(tree), for any input tree, every box at every nesting
   depth has a non-null x, y, width and height. *)
TotalGeometry ==
    Laid => \A p \in Paths(Returned) : HasGeometry(At(Returned, p))

(* C3: autoLayout never mutates its input: the caller's tree is, at every step
   of the call and after it, the tree it was when the call was made. *)
InputNotMutated == heap.diagram = original

\* the full layout has run and has written geometry, into the clone
InputNotMutatedWitness ==
    /\ pc = "done" /\ pass = 1 /\ ret = "cloned"
    /\ heap.cloned # original
    /\ heap.diagram = given

(* C4: every x, y, width or height that the input gives explicitly, for a box at
   any depth, has the same value in the output. *)
ExplicitGeometryKept ==
    Laid => \A p \in Paths(given) :
               /\ At(given, p).x # None => At(Returned, p).x = At(given, p).x
               /\ At(given, p).y # None => At(Returned, p).y = At(given, p).y
               /\ At(given, p).width # None => At(Returned, p).width = At(given, p).width
               /\ At(given, p).height # None => At(Returned, p).height = At(given, p).height

(* C5: when every top-level box has x, y, width and height and the root has width
   and height, autoLayout(tree) equals tree; and autoLayout(autoLayout(t)) equals
   autoLayout(t) for every t. *)
ExplicitIdempotent ==
    /\ Laid /\ (\A i \in 1..Len(given.kids) : HasGeometry(given.kids[i]))
            /\ given.width # None /\ given.height # None
         => Returned = given
    /\ pc = "done" /\ pass = 2 => heap[ret] = firstResult

\* a tree that the first call laid out has gone through the second call
ExplicitIdempotentWitness ==
    /\ pc = "done" /\ pass = 2
    /\ firstResult # given
    /\ \E p \in Paths(given) : ~HasGeometry(At(given, p))

-----------------------------------------------------------------------------
(* The top-level connection graph, as the specification describes it: each
   connection of the tree joins the top-level boxes its endpoints lie in, at
   whatever depth. *)

\* the ids of the top-level box i and of every box under it
RECURSIVE IdsUnder(_)
IdsUnder(node) ==
    ({node.id} \ {""}) \cup UNION {IdsUnder(node.kids[i]) : i \in 1..Len(node.kids)}

\* the top-level boxes (indexes) that hold a box of this id
TopHolders(tree, id) == {i \in 1..Len(tree.kids) : id \in IdsUnder(tree.kids[i])}

FlowEdges(tree) ==
    LET conns == collectConnections(tree)
    IN  {e \in (1..Len(tree.kids)) \X (1..Len(tree.kids)) :
           /\ e[1] # e[2]
           /\ \E k \in 1..Len(conns) : /\ e[1] \in TopHolders(tree, conns[k].from)
                                       /\ e[2] \in TopHolders(tree, conns[k].to)}

RECURSIVE Closure(_)
Closure(R) ==
    LET next == R \cup {<<e[1], f[2]>> : <<e, f>> \in {ef \in R \X R : ef[1][2] = ef[2][1]}}
    IN  IF next = R THEN R ELSE Closure(next)

Acyclic(tree) == \A e \in Closure(FlowEdges(tree)) : e[1] # e[2]

Unplaced(tree) == \A i \in 1..Len(tree.kids) : tree.kids[i].x = None /\ tree.kids[i].y = None

\* the connections that join two distinct top-level boxes directly, as index pairs
DirectEdges(tree) ==
    {e \in (1..Len(tree.kids)) \X (1..Len(tree.kids)) :
       /\ e[1] # e[2]
       /\ tree.kids[e[1]].id # "" /\ tree.kids[e[2]].id # ""
       /\ \E k \in 1..Len(collectConnections(tree)) :
             /\ collectConnections(tree)[k].from = tree.kids[e[1]].id
             /\ collectConnections(tree)[k].to = tree.kids[e[2]].id}

(* C6: when no top-level box has an explicit position and the top-level
   connection graph is acyclic, every connection from -> to between two distinct
   top-level boxes has x(from) < x(to) after autoLayout. *)
LayerOrdering ==
    Laid /\ Unplaced(given) /\ Acyclic(given)
      => \A e \in DirectEdges(given) :
            Returned.kids[e[1]].x[1] < Returned.kids[e[2]].x[1]

\* a chain a -> b -> c has been laid out left to right
LayerOrderingWitness ==
    /\ Laid /\ Unplaced(given) /\ Acyclic(given)
    /\ {<<1, 2>>, <<2, 3>>} \subseteq DirectEdges(given)
    /\ Returned.kids[1].x[1] < Returned.kids[2].x[1]
    /\ Returned.kids[2].x[1] < Returned.kids[3].x[1]

(* C7: the layering worklist loop of autoLayout always exits, for every connection
   graph: it runs at most twice as many iterations as there are top-level boxes
   (a box enters the queue at most once as a seed and once when its in-degree
   reaches 0) and never reads past the end of the queue. *)
LayeringTerminates ==
    pc = "layering" => /\ qi <= Len(queue)
                       /\ Len(queue) <= 2 * Len(getChildBoxes(Cloned))

\* a cycle was broken by seeding a box, which was queued again when its in-degree
\* reached 0, and the loop has ended
LayeringTerminatesWitness ==
    /\ pc = "place"
    /\ Len(queue) > Cardinality(Range(queue))
    /\ \E id \in DOMAIN topInDeg : topInDeg[id] < 0

-----------------------------------------------------------------------------
\* a container below the root whose width and height the layout computed and
\* whose children had no explicit coordinates
AutoContainers ==
    {p \in Paths(given) :
       /\ At(given, p).kids # <<>>
       /\ At(given, p).width = None /\ At(given, p).height = None
       /\ At(Returned, p).width # None /\ At(Returned, p).height # None
       /\ \A i \in 1..Len(At(given, p).kids) :
             At(given, p).kids[i].x = None /\ At(given, p).kids[i].y = None}

Inside(child, parent) ==
    /\ child.x[1] >= 0
    /\ child.y[1] >= 0
    /\ child.x[1] + child.width[1] <= parent.width[1] - 2
    /\ child.y[1] + child.height[1] <= parent.height[1] - 2

(* C8: after autoLayout, every direct child of a container whose width and height
   were auto-computed and whose children had no explicit coordinates lies inside
   it: childX >= 0, childY >= 0, childX + childWidth <= width - 2 and
   childY + childHeight <= height - 2. *)
Containment ==
    Laid => \A p \in AutoContainers :
               \A i \in 1..Len(At(Returned, p).kids) :
                   Inside(At(Returned, p).kids[i], At(Returned, p))

\* a vertical container with a shadowed child and a horizontal one were sized
ContainmentWitness ==
    /\ Laid
    /\ \E p \in AutoContainers :
          /\ At(given, p).childDirection = "vertical"
          /\ \E i \in 1..Len(At(given, p).kids) : At(given, p).kids[i].shadow
          /\ At(Returned, p).kids[2].y[1] > At(Returned, p).kids[1].y[1]
    /\ \E p \in AutoContainers : At(given, p).childDirection = "horizontal"

LongestLine(box) == SetMax({Len(box.lines[i]) : i \in 1..Len(box.lines)})

(* C9: every box without an explicit width gets width >= longest content line + 4
   and width >= title length + 6, and every box without an explicit height gets
   height >= number of content lines + 2. *)
SizeLowerBounds ==
    Laid => \A p \in Paths(given) :
               /\ At(given, p).width = None
                    => /\ At(Returned, p).width # None
                       /\ At(Returned, p).width[1] >= LongestLine(At(given, p)) + 4
                       /\ At(Returned, p).width[1] >= Len(At(given, p).title) + 6
               /\ At(given, p).height = None
                    => /\ At(Returned, p).height # None
                       /\ At(Returned, p).height[1] >= Len(At(given, p).lines) + 2

(* C10: a diagram with more than 4 top-level boxes and no connections is wrapped
   into a grid: at most 4 distinct x values and at least 2 distinct y values. *)
GridWrap ==
    Laid /\ Len(given.kids) > 4 /\ collectConnections(given) = <<>>
      => /\ Cardinality({Returned.kids[i].x : i \in 1..Len(given.kids)}) <= 4
         /\ Cardinality({Returned.kids[i].y : i \in 1..Len(given.kids)}) >= 2

\* C2: render returns for every tree and every record of positive options: no
\* loop of the router runs with its counter past the value that ends it
RouterLoopsEnd ==
    pc = "run" /\ run # <<>> => Converges(Head(run))

-----------------------------------------------------------------------------
\* the top-level boxes (indexes) that hold an endpoint of some connection
Connected(tree) ==
    {i \in 1..Len(tree.kids) :
       \E k \in 1..Len(collectConnections(tree)) :
          \/ i \in TopHolders(tree, collectConnections(tree)[k].from)
          \/ i \in TopHolders(tree, collectConnections(tree)[k].to)}

(* C11: when no top-level box has an explicit position, every top-level box that
   takes part in no connection is placed to the right of every box that takes
   part in one. *)
UnconnectedToTheRight ==
    Laid /\ Unplaced(given)
      => \A i \in Connected(given) :
            \A j \in (1..Len(given.kids)) \ Connected(given) :
                Returned.kids[i].x[1] < Returned.kids[j].x[1]

\* the vertical centre of a box, in the frame of its parent
CentreY(box) == box.y[1] + (box.height[1] \div 2)

\* <<t, p, n>>: a connection joins the top-level box t, alone in its layer, and
\* the n-th child of the top-level container p, in either direction
CrossLevelPairs ==
    {e \in (1..Len(given.kids)) \X (1..Len(given.kids)) \X (1..3) :
       /\ e[1] # e[2]
       /\ e[3] <= Len(given.kids[e[2]].kids)
       /\ given.kids[e[1]].id # "" /\ given.kids[e[2]].kids[e[3]].id # ""
       /\ \E l \in 1..Len(layers) : layers[l] = <<e[1]>>
       /\ \E k \in 1..Len(collectConnections(given)) :
             LET c == collectConnections(given)[k]
                 t == given.kids[e[1]].id
                 n == given.kids[e[2]].kids[e[3]].id
             IN  (c.from = t /\ c.to = n) \/ (c.from = n /\ c.to = t)}

(* C12: when a connection joins a top-level box T that is alone in its layer and
   a box N nested in a top-level container P, in either direction, then after
   autoLayout T.y + floor(T.height/2) = P.y + 1 + N.y + floor(N.height/2). *)
CrossLevelAligned ==
    Laid => \A e \in CrossLevelPairs :
               CentreY(Returned.kids[e[1]])
                 = Returned.kids[e[2]].y[1] + 1 + CentreY(Returned.kids[e[2]].kids[e[3]])

-----------------------------------------------------------------------------
(* The Canvas *)

\* cell (x, y) is one of the width x height cells
OnGrid(cv, x, y) == x \in 0..(cv.width - 1) /\ y \in 0..(cv.height - 1)

GridShape(cv) ==
    /\ DOMAIN cv.grid = 1..cv.height
    /\ \A r \in 1..cv.height : DOMAIN cv.grid[r] = 1..cv.width

(* C13: after any sequence of set, get and writeText calls with coordinates in or
   out of bounds, the grid keeps exactly height rows of width cells; a set out
   of bounds changes no cell and a get out of bounds returns a single space. *)
BoundsDiscipline ==
    [][pc = "canvas" =>
         /\ GridShape(canvas')
         /\ canvas'.width = canvas.width /\ canvas'.height = canvas.height
         /\ (lastCall'.op = "set" /\ ~OnGrid(canvas, lastCall'.x, lastCall'.y))
              => canvas' = canvas
         /\ (lastCall'.op = "get" /\ ~OnGrid(canvas, lastCall'.x, lastCall'.y))
              => returned' = " "]_vars

\* a get left of a grid that holds a character has returned a space
BoundsDisciplineWitness ==
    /\ pc = "canvas" /\ lastCall # None
    /\ lastCall.op = "get" /\ lastCall.x = -1 /\ lastCall.y = 0
    /\ returned = " "
    /\ canvas.grid[1][1] = "a"

(* C14: writeText(x, y, text) sets cell (x+i, y) to text[i] for every i with
   (x+i, y) in bounds and leaves every other cell as it was (a text that starts
   or ends outside the grid is clipped); a get that follows a set of an
   in-bounds cell returns the character set. *)
WriteTextFrame ==
    [][pc = "canvas" =>
         /\ lastCall'.op = "writeText" =>
              \A r \in 1..canvas.height, c \in 1..canvas.width :
                 canvas'.grid[r][c] =
                    IF /\ r - 1 = lastCall'.y
                       /\ c - 1 >= lastCall'.x
                       /\ c - 1 < lastCall'.x + Len(lastCall'.arg)
                      THEN SubSeq(lastCall'.arg, c - lastCall'.x, c - lastCall'.x)
                      ELSE canvas.grid[r][c]
         /\ (/\ lastCall # None /\ lastCall.op = "set" /\ lastCall'.op = "get"
             /\ lastCall'.x = lastCall.x /\ lastCall'.y = lastCall.y
             /\ OnGrid(canvas, lastCall.x, lastCall.y))
              => returned' = lastCall.arg]_vars

\* a text that ends right of the grid was written on the first of two rows: its
\* first character is in the last column and the second row is empty
WriteTextFrameWitness ==
    /\ pc = "canvas" /\ lastCall # None
    /\ lastCall.op = "writeText" /\ lastCall.arg = "aa"
    /\ lastCall.x = canvas.width - 1 /\ lastCall.y = 0
    /\ canvas.height = 2
    /\ canvas.grid[1][canvas.width] = "a"
    /\ \A c \in 1..canvas.width : canvas.grid[2][c] = " "

\* the lines of a string: s.split('\n')
RECURSIVE SplitLines(_)
SplitLines(str) ==
    LET breaks == {i \in 1..Len(str) : SubSeq(str, i, i) = "\n"}
    IN  IF breaks = {} THEN <<str>>
        ELSE <<SubSeq(str, 1, SetMin(breaks) - 1)>>
               \o SplitLines(SubSeq(str, SetMin(breaks) + 1, Len(str)))

\* row r of the grid is `line` moved k columns to the right
RowIsShifted(cv, r, line, k) ==
    \A c \in 1..cv.width :
        cv.grid[r][c] = IF c - k \in 1..Len(line) THEN SubSeq(line, c - k, c - k) ELSE " "

(* C15: toString returns exactly height lines, none ending in whitespace; if some
   row is non-empty, one common indent is removed from every row, so that some
   line starts with a non-space character and the column offsets between the
   rows are kept. *)
ToStringTrims ==
    pc = "canvas" /\ lastCall # None /\ lastCall.op = "toString" =>
        LET lines == SplitLines(returned)
            filled == {r \in 1..canvas.height : \E c \in 1..canvas.width : canvas.grid[r][c] # " "}
        IN  /\ Len(lines) = canvas.height
            /\ \A r \in 1..Len(lines) :
                  Len(lines[r]) = 0 \/ SubSeq(lines[r], Len(lines[r]), Len(lines[r])) # " "
            /\ filled # {} =>
                  /\ \E r \in filled : SubSeq(lines[r], 1, 1) # " "
                  /\ \E k \in 0..canvas.width :
                        \A r \in 1..canvas.height :
                            IF r \in filled THEN RowIsShifted(canvas, r, lines[r], k)
                            ELSE lines[r] = ""

\* two rows of different indents were serialized, with the lesser indent removed
ToStringTrimsWitness ==
    /\ pc = "canvas" /\ lastCall # None /\ lastCall.op = "toString"
    /\ canvas.width = 3 /\ canvas.height = 2
    /\ canvas.grid = << <<" ", " ", "a">>, <<" ", "a", " ">> >>
    /\ returned = " a\na"

-----------------------------------------------------------------------------
\* the boxes from the top-level box down to the box at path p
Chain(tree, p) == [k \in 1..Len(p) |-> At(tree, SubSeq(p, 1, k))]

RECURSIVE SumOf(_)
SumOf(nums) == IF nums = <<>> THEN 0 ELSE Head(nums) + SumOf(Tail(nums))

\* ids that connections name
NamedIds == {"a", "b", "c", "a1", "a2", "a3", "a4", "zz"}

(* C16: resolveBox(id, boxes) returns, for the box of that id nested at depth d,
   absX = its x + the sum of its ancestors' x + d and absY likewise; it returns
   null when no box of the tree has the id. *)
ResolveSums ==
    pc \in {"connect", "run", "rendered"} =>
       /\ \A p \in Paths(laidOut) :
             At(laidOut, p).id # "" =>
                resolveBox(At(laidOut, p).id, getChildBoxes(laidOut))
                  = Some([box |-> At(laidOut, p),
                          absX |-> SumOf([k \in 1..Len(p) |-> OrZero(Chain(laidOut, p)[k].x)])
                                     + (Len(p) - 1),
                          absY |-> SumOf([k \in 1..Len(p) |-> OrZero(Chain(laidOut, p)[k].y)])
                                     + (Len(p) - 1)])
       /\ \A id \in NamedIds \ IdsUnder(laidOut) :
             resolveBox(id, getChildBoxes(laidOut)) = None

\* a connection from a box two levels down was resolved and routed, while an id
\* that no box has resolves to nothing
ResolveSumsWitness ==
    /\ pc = "rendered"
    /\    /\ theConnections[1].from = "a4"
          /\ resolveBox("zz", getChildBoxes(laidOut)) = None
          /\ resolveBox("a4", getChildBoxes(laidOut)) # None
          /\ resolveBox("a4", getChildBoxes(laidOut))[1].absX = 5
          /\ resolveBox("a4", getChildBoxes(laidOut))[1].absY = 3

-----------------------------------------------------------------------------
\* the canvas with the boxes drawn and no connection yet
boxesDrawn ==
    drawBoxes(Canvas(IF laidOut.width = None THEN 80 ELSE laidOut.width[1],
                     IF laidOut.height = None THEN 20 ELSE laidOut.height[1]),
              getChildBoxes(laidOut), 1)

\* the connection has both its ends among the boxes
Resolves(conn) ==
    /\ resolveBox(conn.from, getChildBoxes(laidOut)) # None
    /\ resolveBox(conn.to, getChildBoxes(laidOut)) # None

\* the subsequence of the connections that resolve
RECURSIVE Resolving(_)
Resolving(conns) ==
    IF conns = <<>> THEN <<>>
    ELSE (IF Resolves(Head(conns)) THEN <<Head(conns)>> ELSE <<>>) \o Resolving(Tail(conns))

(* C17: drawConnection of a connection whose from or to resolves to no box
   leaves every cell of the canvas as it was and returns normally, the next
   connection being drawn after it; and the finished canvas is the one that the
   connections that do resolve give without it. *)
SkippedUndrawn ==
    /\ [][ (pc = "connect" /\ ci <= Len(theConnections) /\ ~Resolves(theConnections[ci]))
             => (canvas' = canvas /\ pc' = "connect" /\ ci' = ci + 1) ]_vars
    /\ [](pc = "rendered" =>
            canvas = drawConnections(boxesDrawn, Resolving(theConnections), 1,
                                     getChildBoxes(laidOut)))

\* a connection was drawn, one that resolves to no box was skipped, and another
\* was drawn after it
SkippedUndrawnWitness ==
    /\ pc = "rendered"
    /\ Len(theConnections) = 3
    /\ Resolves(theConnections[1])
    /\ ~Resolves(theConnections[2])
    /\ Resolves(theConnections[3])
    /\ canvas # boxesDrawn
    /\ canvas # drawConnections(boxesDrawn, <<theConnections[1]>>, 1, getChildBoxes(laidOut))

-----------------------------------------------------------------------------
\* drawConnection returns from the connection it was drawing
ConnectionDrawn ==
    /\ pc \in {"connect", "run"} /\ pc' = "connect"
    /\ ci' = ci + 1
    /\ Resolves(theConnections[ci])

(* C18: when drawConnection returns from an unlabeled connection whose ends
   resolve, the cell of the canvas at the destination anchor getAnchor(to,
   toSide), if the canvas has that cell, holds the arrowhead of the destination
   side: left ">", right "<", top "!", bottom "?"; whatever the routing shape. *)
ArrowAtAnchor ==
    [][ (ConnectionDrawn /\ theConnections[ci].label = ""
           /\ inBounds(canvas, theRoute.dst.x, theRoute.dst.y))
          => get(canvas', theRoute.dst.x, theRoute.dst.y) = ARROW_HEADS[theRoute.toSide] ]_vars

-----------------------------------------------------------------------------
\* the route of the i-th connection
RouteAt(i) == routeOf(theConnections[i], getChildBoxes(laidOut), theConnections)

\* the sequence backwards
Reverse(seq) == [k \in 1..Len(seq) |-> seq[Len(seq) + 1 - k]]

\* the diagram has two connections, a straight one and an L-shaped one, that
\* leave the same source anchor; TheL is the L-shaped one
StraightAndL ==
    /\ Len(theConnections) = 2
    /\ Resolves(theConnections[1]) /\ Resolves(theConnections[2])
    /\ {RouteAt(1).shape, RouteAt(2).shape} = {"straight", "L"}
    /\ RouteAt(1).src = RouteAt(2).src

TheL == IF RouteAt(1).shape = "L" THEN RouteAt(1) ELSE RouteAt(2)

(* C19: when a straight connection and an L-shaped connection that leave the
   same source anchor have both been drawn, in whichever order, the cell at the
   L's turn column on the source row holds a tee ("+" when the L turns down, "*"
   when it turns up), and the canvas is the one that drawing the two in the
   other order gives. *)
JunctionMerged ==
    (pc = "rendered" /\ StraightAndL) =>
       /\ get(canvas, TheL.turnX, TheL.src.y)
            = (IF TheL.yDir > 0 THEN DownHorizontal ELSE UpHorizontal)
       /\ canvas = drawConnections(boxesDrawn, Reverse(theConnections), 1,
                                   getChildBoxes(laidOut))

-----------------------------------------------------------------------------
\* the diagram has one connection, it is labeled and L-shaped, and the canvas
\* has the cell of its destination anchor
LabeledLAlone ==
    /\ Len(theConnections) = 1
    /\ Resolves(theConnections[1])
    /\ RouteAt(1).shape = "L"
    /\ RouteAt(1).label # ""
    /\ inBounds(canvas, RouteAt(1).dst.x, RouteAt(1).dst.y)

\* the canvas with the connection drawn as it is routed, but without its label
Unlabeled ==
    LET bare == [RouteAt(1) EXCEPT !.label = ""]
        looped(g, n) == afterLoop(runLoop(g, bare, n, bare.loops[n].at), bare, n)
    IN  afterLoops(looped(looped(looped(boxesDrawn, 1), 2), 3), bare)

\* the letters of the label stand from column k + 1 on in row y, between the
\* columns lo and hi, and the cells before and after them are blank
LabelWithin(k, y, lo, hi) ==
    /\ k + 1 > Min(lo, hi)
    /\ k + Len(RouteAt(1).label) < Max(lo, hi)
    /\ canvas = writeText(Unlabeled, k, y, " " \o RouteAt(1).label \o " ")

(* C20: after a labeled L-shaped connection has been drawn on a canvas that has
   no other connection, whatever the length of the label, the cells (midX, src.y)
   and (midX, dst.y) each hold one of the four corners, the destination anchor
   holds the arrowhead, and the label either is not drawn at all or stands
   wholly between the two ends of one of the two horizontal segments. *)
LabelSparesCorners ==
    (pc = "rendered" /\ LabeledLAlone) =>
       LET r == RouteAt(1)
       IN  /\ get(canvas, r.turnX, r.src.y) \in corners
           /\ get(canvas, r.turnX, r.dst.y) \in corners
           /\ get(canvas, r.dst.x, r.dst.y) = r.arrowHead
           /\ \/ canvas = Unlabeled
              \/ \E k \in (Min(r.src.x, r.dst.x) - 1)..Max(r.src.x, r.dst.x) :
                    \/ LabelWithin(k, r.src.y, r.src.x, r.turnX)
                    \/ LabelWithin(k, r.dst.y, r.turnX, r.dst.x)

-----------------------------------------------------------------------------
\* the column past the right edge of the top-level box, its shadow included
RightEdge(box) == OrZero(box.x) + OrZero(box.width) + (IF box.shadow THEN 2 ELSE 0)

\* drawUShape returns from a connection that leaves and enters on the right
RightUDrawn ==
    /\ pc = "run" /\ run = <<>> /\ pc' = "connect"
    /\ theRoute.shape = "U"
    /\ theRoute.hDir > 0

\* the cell is not on the canvas, or it holds the glyph
Holds(cv, x, y, glyph) == inBounds(cv, x, y) => get(cv, x, y) = glyph

(* C21: when a connection that leaves and enters on the right, between anchors
   on different rows, has been drawn, its vertical segment stands in the column
   1 + the largest of x + width (+ 2 with a shadow) over the top-level boxes,
   right of every top-level box and shadow; the cell of that column on the
   source row holds DownLeft going down and UpLeft going up, the cell on the
   destination row UpLeft going down and DownLeft going up, and the destination
   anchor holds "<" (each where the canvas has the cell). *)
RightUGeometry ==
    [][ RightUDrawn =>
          LET r == theRoute
              boxes == getChildBoxes(laidOut)
              col == 1 + SetMax({RightEdge(boxes[i]) : i \in 1..Len(boxes)})
              down == r.yDir > 0
          IN  /\ r.turnX = col
              /\ \A i \in 1..Len(boxes) : col > RightEdge(boxes[i]) - 1
              /\ \A y \in (Min(r.src.y, r.dst.y) + 1)..(Max(r.src.y, r.dst.y) - 1) :
                    Holds(canvas', col, y, Vertical)
              /\ Holds(canvas', col, r.src.y, IF down THEN DownLeft ELSE UpLeft)
              /\ Holds(canvas', col, r.dst.y, IF down THEN UpLeft ELSE DownLeft)
              /\ Holds(canvas', r.dst.x, r.dst.y, ARROW_HEADS.right) ]_vars

-----------------------------------------------------------------------------
\* two connections of the list leave the same box and both are routed as an L
SiblingLs(i, j) ==
    /\ theConnections[i].from = theConnections[j].from
    /\ Resolves(theConnections[i]) /\ Resolves(theConnections[j])
    /\ RouteAt(i).shape = "L" /\ RouteAt(j).shape = "L"

(* C22: any two connections of a rendered diagram that leave the same box and
   are both routed as an L, with the diagram's connection list as the sibling
   list of both, get the same turn column midX from computeLShapeMidX. *)
SiblingsShareMidX ==
    pc = "rendered" =>
       \A i, j \in 1..Len(theConnections) :
          SiblingLs(i, j) => RouteAt(i).turnX = RouteAt(j).turnX

-----------------------------------------------------------------------------
\* the connections from a top-level box (index e[1]) to a box nested, at any
\* depth, inside another top-level box (index e[2])
NestedEdges(tree) ==
    {e \in (1..Len(tree.kids)) \X (1..Len(tree.kids)) :
       /\ e[1] # e[2]
       /\ tree.kids[e[1]].id # ""
       /\ \E k \in 1..Len(collectConnections(tree)) :
             /\ collectConnections(tree)[k].from = tree.kids[e[1]].id
             /\ collectConnections(tree)[k].to # tree.kids[e[2]].id
             /\ e[2] \in TopHolders(tree, collectConnections(tree)[k].to)}

(* C23: when no top-level box has an explicit position and the top-level
   connection graph is acyclic, every connection A -> n from a top-level box A
   to a box n nested at any depth inside another top-level box P has
   x(A) < x(P) after autoLayout, whichever of A and P comes first in the
   document. *)
NestedEndpointLayered ==
    Laid /\ Unplaced(given) /\ Acyclic(given)
      => \A e \in NestedEdges(given) :
            Returned.kids[e[1]].x[1] < Returned.kids[e[2]].x[1]

-----------------------------------------------------------------------------
\* the stacked height of a layer of the returned tree: its boxes' heights, their
\* shadow rows and the gaps between them
StackedHeight(group) ==
    SumOf([j \in 1..Len(group) |->
             Returned.kids[group[j]].height[1]
               + (IF Returned.kids[group[j]].shadow THEN 1 ELSE 0)])
      + opts.vGap * (Len(group) - 1)

\* autoLayout has placed the top-level boxes in layers, none with an explicit y
LayersPlaced ==
    /\ Laid /\ layers # <<>>
    /\ \A b \in 1..Len(given.kids) : given.kids[b].y = None

(* C24: after autoLayout of top-level boxes without explicit y, the first box of
   every non-empty layer has y = 1 + floor((Hmax - H) / 2), H the stacked height
   of its layer and Hmax the largest stacked height of a layer, for every
   connection graph, cyclic ones with unused layer numbers included. *)
LayersCentred ==
    LayersPlaced =>
       LET used == {i \in 1..Len(layers) : layers[i] # <<>>}
           Hmax == SetMax({StackedHeight(layers[i]) : i \in used})
       IN  \A i \in used :
              Returned.kids[layers[i][1]].y[1]
                = 1 + (Hmax - StackedHeight(layers[i])) \div 2

-----------------------------------------------------------------------------
(* drawBox called on its own: one box drawn on a canvas that is blank or
   already holds other content *)

\* the widest and the tallest box drawn
MaxBoxW == 8

MaxBoxH == 4

BorderStyles == {"", "single", "double", "bold", "rounded", "dashed"}

BoxTitles == {"", "T", "Title"}

BoxTexts == {<<>>, <<"A">>, <<"hello">>, <<"a", "b", "c">>}

\* a canvas whose cells all hold ch
Filled(width, height, ch) ==
    [Canvas(width, height) EXCEPT
       !.grid = [r \in 1..height |-> [c \in 1..width |-> ch]]]

\* the leaf boxes, each at (1, 1)
LeafBoxes ==
    { [Leaf("a", title, lines, shadow, Some(1), Some(1), Some(w), Some(h))
         EXCEPT !.border = border, !.disabled = disabled] :
        title \in BoxTitles, lines \in BoxTexts, shadow \in BOOLEAN,
        w \in 2..MaxBoxW, h \in 2..MaxBoxH,
        border \in BorderStyles, disabled \in BOOLEAN }

InitBox ==
    /\ given \in LeafBoxes
    /\ \E ch \in {" ", "o"} : canvas = Filled(MaxBoxW + 5, MaxBoxH + 3, ch)
    /\ lastCall = None
    /\ returned = None
    /\ pc = "box"
    /\ ci = 0
    /\ run = <<>>
    /\ heap = [diagram |-> None, cloned |-> None]
    /\ ref = "diagram"
    /\ ret = ""
    /\ original = None
    /\ opts = DEFAULT_LAYOUT_OPTIONS
    /\ pass = 1
    /\ topAdj = EmptyMap
    /\ topInDeg = EmptyMap
    /\ layer = EmptyMap
    /\ queue = <<>>
    /\ qi = 0
    /\ layers = <<>>
    /\ columnHeights = <<>>
    /\ firstResult = None

\* drawBox(canvas, box)
DrawBox ==
    /\ pc = "box"
    /\ canvas' = drawBox(canvas, given, given.x[1], given.y[1])
    /\ pc' = "boxed"
    /\ UNCHANGED <<layoutVars, ci, run, lastCall, returned>>

NextBox == DrawBox

SpecBox == InitBox /\ [][NextBox]_vars

\* the style drawBox draws the box in (line 9)
styleOf(box) == IF box.border \in DOMAIN BORDERS THEN BORDERS[box.border] ELSE BORDERS.single

\* the six glyphs of a style
GlyphsOf(style) == {style[g] : g \in DOMAIN style}

\* the columns and rows of the box and of its interior
BoxCols(box) == box.x[1]..(box.x[1] + box.width[1] - 1)

BoxRows(box) == box.y[1]..(box.y[1] + box.height[1] - 1)

InnerCols(box) == (box.x[1] + 1)..(box.x[1] + box.width[1] - 2)

InnerRows(box) == (box.y[1] + 1)..(box.y[1] + box.height[1] - 2)

\* the columns of the top border where drawBox writes the characters of the title
TitleCols(box) == (box.x[1] + 4)..(box.x[1] + 3 + Len(box.title))

\* the canvas after drawBox of the same box, not disabled
Enabled(cv, box) == drawBox(cv, [box EXCEPT !.disabled = FALSE], box.x[1], box.y[1])

(* C25: drawBox of a disabled box, of any border style, leaves every cell of the
   top border that holds a border glyph before the overlay with exactly that
   glyph, puts the shade glyph in every interior cell that was blank, and adds
   the strike-through only to characters of the title. *)
DisabledOverlay ==
    [][ (DrawBox /\ given.disabled) =>
          LET before == Enabled(canvas, given)
              y == given.y[1]
          IN  /\ \A c \in BoxCols(given) :
                    get(before, c, y) \in GlyphsOf(styleOf(given))
                      => get(canvas', c, y) = get(before, c, y)
              /\ \A c \in InnerCols(given), r \in InnerRows(given) :
                    get(before, c, r) = " " => get(canvas', c, r) = SHADOW_CHAR
              /\ \A c \in 0..(canvas.width - 1), r \in 0..(canvas.height - 1) :
                    get(canvas', c, r) # get(before, c, r)
                      => \/ /\ get(canvas', c, r) = get(before, c, r) \o Strike
                            /\ r = y /\ c \in TitleCols(given) /\ given.title # ""
                         \/ /\ get(canvas', c, r) = SHADOW_CHAR
                            /\ c \in InnerCols(given) /\ r \in InnerRows(given) ]_vars

-----------------------------------------------------------------------------
\* the cells of the shadow of the box (draw-box.ts lines 13-19)
ShadowCells(box) ==
    LET x == box.x[1]
        y == box.y[1]
        w == box.width[1]
        h == box.height[1]
    IN  IF ~box.shadow THEN {}
        ELSE ({x + w, x + w + 1} \X ((y + 1)..(y + h)))
               \cup (((x + 1)..(x + w + 1)) \X {y + h})

\* the corner and side-border cells of the box, each with the glyph of its style
FrameCells(box) ==
    LET x == box.x[1]
        y == box.y[1]
        w == box.width[1]
        h == box.height[1]
        b == styleOf(box)
    IN  {<<x, y, b.tl>>, <<x + w - 1, y, b.tr>>,
         <<x, y + h - 1, b.bl>>, <<x + w - 1, y + h - 1, b.br>>}
          \cup {<<c, r, b.v>> : c \in {x, x + w - 1}, r \in InnerRows(box)}

(* C30: drawBox of a leaf box of width and height at least 2, with any title and
   text, changes no cell outside the rectangle of the box and its shadow cells,
   and leaves the corner and side-border cells of the box holding their border
   glyphs: neither the title nor the text lines overwrite them. *)
LeafBoxFrame ==
    [][ (DrawBox /\ given.kids = <<>> /\ given.width[1] >= 2 /\ given.height[1] >= 2) =>
          /\ \A c \in 0..(canvas.width - 1), r \in 0..(canvas.height - 1) :
                (~(c \in BoxCols(given) /\ r \in BoxRows(given))
                   /\ <<c, r>> \notin ShadowCells(given))
                  => get(canvas', c, r) = get(canvas, c, r)
          /\ \A cell \in FrameCells(given) :
                get(canvas', cell[1], cell[2]) = cell[3] ]_vars

-----------------------------------------------------------------------------
\* the positions (from 0) in the layer prev of the boxes that a connection leads
\* from, to the top-level box b or into it, one for each such connection
PredPositions(b, prev) ==
    LET conns == collectConnections(given)
        at(k) == {m \in 1..Len(prev) : prev[m] \in TopHolders(given, conns[k].from)}
        hits == SelectSeq(Indices(Len(conns)),
                          LAMBDA k : b \in TopHolders(given, conns[k].to) /\ at(k) # {})
    IN  [n \in 1..Len(hits) |-> (CHOOSE m \in at(hits[n]) : TRUE) - 1]

\* the median of the positions, None when there is none
MedianKey(b, prev) ==
    LET positions == SortNums(PredPositions(b, prev))
    IN  IF positions = <<>> THEN None ELSE Some(positions[(Len(positions) \div 2) + 1])

\* key p does not come after key q
KeyInOrder(p, q) == p = q \/ q = None \/ (p # None /\ p[1] < q[1])

(* C26: in every top-level layer but the first, the boxes stand top to bottom in
   the order of the median position, in the layer before, of the boxes they are
   connected from; a box connected from none of that layer comes after every box
   that is, and boxes of equal keys are in document order. *)
MedianOrder ==
    (Laid /\ layers # <<>>) =>
       \A i \in 2..Len(layers) : \A j, k \in 1..Len(layers[i]) :
          j < k =>
             LET p == MedianKey(layers[i][j], layers[i - 1])
                 q == MedianKey(layers[i][k], layers[i - 1])
             IN  /\ KeyInOrder(p, q)
                 /\ p = q => layers[i][j] < layers[i][k]

-----------------------------------------------------------------------------
\* a horizontal run (the first or the third loop) of the shape is running
HorizontalRun(shape) ==
    /\ pc = "run" /\ run # <<>>
    /\ theRoute.shape = shape
    /\ nthLoop \in {1, 3}

(* C27: while drawLShape draws a connection, whatever the distance between the
   columns of the two anchors, the counter of each of its two horizontal runs
   is on its end column or moves towards it, so that the run ends. *)
LShapeRunsEnd ==
    HorizontalRun("L") => Converges(Head(run))

(* C28: while drawUShape draws a connection that leaves and enters on the same
   side, left or right, the extension column lies strictly beyond both anchors
   on that side, and the counter of each of its two horizontal runs is on its
   end column or moves towards it, so that the run ends. *)
UShapeRunsEnd ==
    HorizontalRun("U") =>
       /\ (theRoute.turnX - theRoute.src.x) * theRoute.hDir > 0
       /\ (theRoute.turnX - theRoute.dst.x) * theRoute.hDir > 0
       /\ Converges(Head(run))

-----------------------------------------------------------------------------
\* the junction glyphs that merging two connections makes
Tees == {DownHorizontal, UpHorizontal, VerticalLeft, VerticalRight}

\* a step of the drawing of a straight or L-shaped connection, when every
\* connection drawn before it leaves the same box
SiblingDrawing ==
    /\ pc \in {"connect", "run"}
    /\ ci <= Len(theConnections)
    /\ Resolves(theConnections[ci])
    /\ theRoute.shape \in {"straight", "L"}
    /\ \A k \in 1..ci : theConnections[k].from = theConnections[ci].from

(* C29: a cell that holds a tee made by merging two connections still holds a
   tee after every step of the drawing of a further straight or L-shaped
   connection from the same source; it never goes back to a corner or to a
   plain horizontal line. (The program writes no cross glyph.) *)
TeeKept ==
    [][ SiblingDrawing =>
          \A c \in 0..(canvas.width - 1), r \in 0..(canvas.height - 1) :
             get(canvas, c, r) \in Tees => get(canvas', c, r) \in Tees ]_vars

====
